---- MODULE Spec2Model ----
(***************************************************************************)
(* Model of the DNS resolution layer of probe-cli:                         *)
(*   - dnsOverTCPTLSResolver (oonet/dns.go): the persistent TCP/TLS        *)
(*     connection, its mutex, its waiter counter, the background I/O task  *)
(*     started by try, and CloseIdleConnections;                           *)
(*   - dnsGenericResolver (oonet/dns.go): the A / AAAA dual query over the *)
(*     miekg codec and an arbitrary transport;                             *)
(*   - resolverSystem (netxlite): the OS lookup raced against the context. *)
(***************************************************************************)
EXTENDS Integers, Sequences, FiniteSets, TLC

(***************************************************************************)
(* Bounds of the model.                                                    *)
(***************************************************************************)
\* callers of roundTrip / CloseIdleConnections on one dnsOverTCPTLSResolver
NumCallers == 2
\* calls of roundTrip / CloseIdleConnections made in one behaviour
MaxCalls == 3
\* background asyncTry goroutines alive at the same time
MaxTasks == 2
\* connections dialed in one behaviour
MaxDials == 2

Callers == 1..NumCallers

(***************************************************************************)
(* Program constants.                                                      *)
(***************************************************************************)
\* math.MaxUint16, the longest query trySync accepts
MaxUint16 == 65535

\* the nil net.Conn
NoConn == 0
\* the unlocked mutex
NoOwner == 0

(***************************************************************************)
(* Errors and results of the TCP/TLS transport.                            *)
(***************************************************************************)
ErrNil == "nil"
\* errDNSOverTCPTLSRedial{err}: the write failed, hint for a redial
ErrRedial == "redial(write failed)"
ErrRead == "read failed"
ErrQueryTooLong == "query too long"
ErrDial == "dial failed"
ErrCtx == "context canceled"

\* dnsOverTCPTLSResult
Result(reply, err) == [reply |-> reply, err |-> err]
NoResult == Result("nil", ErrNil)

CanSendUnbuffered(n, cap, receiving) == receiving

\* a send on a Go channel that holds n values in a buffer of cap goes through
\* when the buffer has room or a receiver is waiting; otherwise it blocks
CanSend(n, cap, receiving) == n < cap \/ receiving

\* a query handed to roundTrip: the nil sentinel or bytes of some length
NilQuery == [isNil |-> TRUE, len |-> 0]
Query(n) == [isNil |-> FALSE, len |-> n]
QueryLens == {29, MaxUint16 + 1}
Queries == {NilQuery} \cup {Query(n) : n \in QueryLens}

VARIABLES
  \* ---- dnsOverTCPTLSResolver ----
  conn,       \* r.conn: NoConn or the id of the dialed connection
  closed,     \* ids of the connections on which Close() was called
  deadlined,  \* ids of the connections that currently have an I/O deadline
  dialed,     \* number of connections dialed so far (the next id is dialed+1)
  mu,         \* r.mu: NoOwner or the caller holding the lock
  users,      \* r.users: the atomic waiter counter
  pc,         \* position of each caller inside roundTrip
  query,      \* the query argument of each caller's current roundTrip
  ctxDone,    \* whether the context of each caller's current call is done
  ret,        \* (reply, err) returned by each caller's last roundTrip
  calls,      \* number of round trips begun so far
  tries,      \* try calls made by the caller's current round trip
  dials,      \* dial calls made by the caller's current round trip
  tryOut,     \* what each try of the current round trip returned, and the
              \* connection it ran on
  selSaw,     \* what the last select of try found ready: <<result, ctx>>
  idleClose,  \* what the caller's last CloseIdleConnections did
  myTask,     \* the asyncTry task started by the caller's current try
  tasks,      \* the asyncTry goroutines: a slot is "free" when no goroutine
              \* runs in it (not started, or exited)
  trych       \* the buffer of the channel ch that try made for the task
              \* of each slot

VARIABLES
  \* ---- dnsGenericResolver.LookupHost ----
  gpc,        \* position of the LookupHost call
  gtask,      \* the asyncLookupHost goroutine of each query type
  gres,       \* the result each goroutine got from doLookupHost
  greply,     \* replyA / replyAAAA as received from resA / resAAAA
  gret,       \* (addrs, err) returned by LookupHost
  gmon,       \* the events given to the monitor of the context, in order
  dpc,        \* position of DNSResolver.LookupHost over the generic resolver
  dret        \* (addrs, err) returned by DNSResolver.LookupHost

VARIABLES
  \* ---- resolverSystem.LookupHost ----
  scall,      \* number of the current LookupHost call (0: none yet)
  spc,        \* position of the current call
  sctx,       \* state of the context that governs the current call
  stask,      \* the lookup goroutine started by each call
  addrsch,    \* addrsch of each call (buffer of one)
  errch,      \* errch of each call (buffer of one)
  ssaw,       \* what the select of the current call found ready
  sret        \* (addrs, err) returned by the current call

tcpVars == <<conn, closed, deadlined, dialed, mu, users, pc, query, ctxDone,
             ret, calls, tries, dials, tryOut, selSaw, idleClose, myTask, tasks,
             trych>>

genVars == <<gpc, gtask, gres, greply, gret, gmon, dpc, dret>>

VARIABLES
  \* ---- one resolver layer over an inner resolver ----
  lHost,      \* the hostname given to the layer's LookupHost
  lInner,     \* (addrs, err) the inner resolver returns when it is called
  lLayer,     \* the layer whose LookupHost ran ("none" before the call)
  lOut        \* (addrs, err) the layer returned

sysVars == <<scall, spc, sctx, stask, addrsch, errch, ssaw, sret>>

layerVars == <<lHost, lInner, lLayer, lOut>>

VARIABLES
  \* ---- the resolver WrapResolver builds ----
  wpc,        \* "other" (another method than LookupHost has returned),
              \* "idle", "down" (a layer is about to run), "concrete" (the
              \* concrete resolver is about to run), "up" (a layer is about
              \* to get its inner call's return value), "done"
  wdepth,     \* the layer that runs next, 1 being the outermost
  whost,      \* the hostname each entered layer was called with
  wtrace,     \* the resolvers entered so far, in the order of entry
  wconc,      \* what the concrete resolver returned
  wval,       \* the (addrs, err) on its way up to the caller
  wlog,       \* the lines resolverLogger gave to Logger.Debugf, in order
  wres,       \* the concrete resolver WrapResolver was given
  wmeta,      \* the calls other than LookupHost that have reached the
              \* concrete resolver, in order
  wbuild,     \* the factory that built the chain
  wother      \* the call of a method other than LookupHost, once it has
              \* returned: the method, its argument and what it returned

wrapVars == <<wpc, wdepth, whost, wtrace, wconc, wval, wlog, wres, wmeta,
              wbuild, wother>>

VARIABLES
  \* ---- the single-use QUIC dialer ----
  suSess,     \* the session the dialer still holds, or "nil"
  suMu,       \* the dialer's mutex: NoOwner or the caller holding it
  suPc,       \* position of each caller inside DialContext
  suArg,      \* the address argument of each caller's current call
  suLocal,    \* the session each caller has read from the dialer
  suCalls,    \* DialContext calls begun so far
  suLog       \* what the calls returned, in the order they were decided

singleUseVars == <<suSess, suMu, suPc, suArg, suLocal, suCalls, suLog>>

VARIABLES
  \* ---- the resolver-backed QUIC dialer over the quic-go dialer ----
  qpc,        \* "idle", "lookup", "dial", "done"
  qAddress,   \* the address argument of DialContext
  qResolver,  \* the injected resolver: "null" or "mock"
  qGiven,     \* the TLS config as the caller filled it in before the call
  qCallerCfg, \* the caller's TLS config object as it is now
  qLookup,    \* the LookupHost calls made on the resolver and their returns
  qAddrs,     \* the addresses to attempt
  qPassed,    \* the TLS config the resolver-backed dialer hands downwards
  qLog,       \* the attempts: target, config given to the QUIC handshake,
              \* outcome
  qErrs,      \* the errors of the failed attempts
  qRet        \* (session, err) returned by DialContext

VARIABLES
  \* ---- the miekg codec called on its own ----
  cdDecode,   \* the last DecodeLookupHostResponse call: inputs and return
  cdEncode    \* the last EncodeLookupHostRequest call: the length of the
              \* query before padding, the padding flag, the size of the
              \* padding option and the length of the packed query

codecVars == <<cdDecode, cdEncode>>

VARIABLES
  \* ---- the mlablocate client ----
  mlQuery     \* the last Query call: the client, the tool, what the HTTP
              \* client answers, the request sent and the return

locateVars == <<mlQuery>>

quicVars == <<qpc, qAddress, qResolver, qGiven, qCallerCfg, qLookup, qAddrs,
              qPassed, qLog, qErrs, qRet>>

VARIABLES
  \* ---- DNSOverHTTPSResolver.roundTrip ----
  dohIdle,    \* the last CloseIdleConnections call: the resolver it was made
              \* on and the calls that reached the resolver and its client
  dohTrip     \* the last roundTrip call: the resolver, what the HTTP client
              \* answers, the requests given to Do and the return

dohVars == <<dohTrip, dohIdle>>

VARIABLES
  \* ---- DNSOverTLSResolver, the wrapper that owns the TCP/TLS resolver ----
  otReso,     \* whether r.reso is set (it is nil until the first LookupHost)
  otFwd,      \* the calls handed on to r.reso, in order
  otPc,       \* position of each goroutine calling the wrapper
  otCalls     \* the calls made on the wrapper so far

overTLSVars == <<otReso, otFwd, otPc, otCalls>>

VARIABLES
  \* ---- trySync on one connection, byte by byte ----
  fpc,        \* position inside trySync
  fqlen,      \* len(query)
  fdl,        \* the SetDeadline calls made on the connection, in order
  fbuf,       \* the buffer given to conn.Write
  fhdr,       \* the two header bytes read from the connection
  fread,      \* the bytes of the reply read from the connection
  fret        \* (reply, err) returned by trySync

frameVars == <<fpc, fqlen, fdl, fbuf, fhdr, fread, fret>>

vars == <<tcpVars, genVars, sysVars, layerVars, wrapVars, singleUseVars,
          quicVars, codecVars, locateVars,
          dohVars,
          overTLSVars,
          frameVars>>

(***************************************************************************)
(* Helpers over the state of the TCP/TLS resolver.                         *)
(***************************************************************************)
TaskIds == 1..MaxTasks

\* a slot with no goroutine in it
FreeTask == [owner |-> 0, pc |-> "free", q |-> NilQuery, dconn |-> NoConn,
             out |-> NoResult]

FreeSlots == {t \in TaskIds : tasks[t].pc = "free"}

\* positions of trySync at which the task holds a deadline it has set on the
\* connection and is writing to / reading from it
IOPositions == {"write", "readhdr", "readbody", "readempty", "clear"}

\* the asyncTry tasks whose socket I/O is in progress
TasksInIO == {t \in TaskIds : tasks[t].pc \in IOPositions}

\* a goroutine dereferenced a nil conn: the Go runtime panics and the
\* process ends
Crashed == \E t \in TaskIds : tasks[t].pc = "panic"

ShouldCloseIdleIgnoringUsers(u, cn) == cn # NoConn
ShouldCloseIdleIgnoringConn(u, cn) == u = 0

\* rtriplocked, the condition of the nil-sentinel branch:
\*   atomic.LoadInt32(&r.users) == 0 && r.conn != nil
ShouldCloseIdle(u, cn) == u = 0 /\ cn # NoConn

\* do: errors.As(err, &redial)
IsRedialHint(err) == err = ErrRedial

DoAfterTryEveryTime(n, out) ==
  IF out.err # ErrNil /\ IsRedialHint(out.err) THEN "redial" ELSE "return"

DoAfterTryAnyError(n, out) ==
  IF n = 1 /\ out.err # ErrNil THEN "redial" ELSE "return"

\* do: what follows the n-th try of a round trip whose outcome is out:
\* "return" (with the value DoReturn gives) or "redial"
DoAfterTry(n, out) ==
  IF n = 1 /\ out.err # ErrNil /\ IsRedialHint(out.err) THEN "redial" ELSE "return"

\* do: the value returned after the n-th try
DoReturn(n, out) ==
  IF n = 1 /\ out.err # ErrNil THEN Result("nil", out.err) ELSE out

(***************************************************************************)
(* roundTrip, one step per statement that another goroutine can observe.   *)
(***************************************************************************)
\* a caller enters roundTrip(ctx, q): atomic.AddInt32(&r.users, 1).
\* CloseIdleConnections passes context.Background() and the nil sentinel.
roundTripEnter(c, q) ==
  /\ pc[c] = "idle"
  /\ calls < MaxCalls
  /\ calls' = calls + 1
  /\ query' = [query EXCEPT ![c] = q]
  /\ users' = users + 1
  /\ pc' = [pc EXCEPT ![c] = "lock"]
  /\ UNCHANGED <<conn, closed, deadlined, dialed, mu, ctxDone, ret, tries,
                 dials, tryOut, selSaw, idleClose, myTask, tasks>>
  /\ UNCHANGED trych

\* r.mu.Lock()
roundTripLock(c) ==
  /\ pc[c] = "lock"
  /\ mu = NoOwner
  /\ mu' = c
  /\ pc' = [pc EXCEPT ![c] = "dec"]
  /\ UNCHANGED <<conn, closed, deadlined, dialed, users, query, ctxDone, ret,
                 calls, tries, dials, tryOut, selSaw, idleClose, myTask, tasks>>
  /\ UNCHANGED trych

\* atomic.AddInt32(&r.users, -1)
roundTripDec(c) ==
  /\ pc[c] = "dec"
  /\ users' = users - 1
  /\ pc' = [pc EXCEPT ![c] = "rtrip"]
  /\ UNCHANGED <<conn, closed, deadlined, dialed, mu, query, ctxDone, ret,
                 calls, tries, dials, tryOut, selSaw, idleClose, myTask, tasks>>
  /\ UNCHANGED trych

\* rtriplocked with the nil sentinel (CloseIdleConnections): the test and,
\* when it holds, r.conn.Close(); the connection is closed and r.conn still
\* points to it.  Otherwise return nil, nil.
rtriplockedSentinel(c) ==
  /\ pc[c] = "rtrip"
  /\ query[c].isNil
  /\ IF ShouldCloseIdle(users, conn)
       THEN /\ closed' = closed \cup {conn}
            /\ idleClose' = [idleClose EXCEPT ![c] = "closed"]
            /\ pc' = [pc EXCEPT ![c] = "setnil"]
            /\ UNCHANGED ret
       ELSE /\ UNCHANGED closed
            /\ idleClose' = [idleClose EXCEPT ![c] = "skipped"]
            /\ ret' = [ret EXCEPT ![c] = Result("nil", ErrNil)]
            /\ pc' = [pc EXCEPT ![c] = "unlock"]
  /\ UNCHANGED <<conn, deadlined, dialed, mu, users, query, ctxDone, calls,
                 tries, dials, tryOut, selSaw, myTask, tasks>>
  /\ UNCHANGED trych

\* rtriplocked with the nil sentinel: r.conn = nil; return nil, nil
rtriplockedSetNil(c) ==
  /\ pc[c] = "setnil"
  /\ query[c].isNil
  /\ conn' = NoConn
  /\ ret' = [ret EXCEPT ![c] = Result("nil", ErrNil)]
  /\ pc' = [pc EXCEPT ![c] = "unlock"]
  /\ UNCHANGED <<closed, deadlined, dialed, mu, users, query, ctxDone, calls,
                 tries, dials, tryOut, selSaw, idleClose, myTask, tasks>>
  /\ UNCHANGED trych

maybeDialEveryTime(c) ==
  /\ pc[c] = "rtrip"
  /\ ~query[c].isNil
  /\ pc' = [pc EXCEPT ![c] = "redial"]
  /\ UNCHANGED <<conn, closed, deadlined, dialed, mu, users, query, ctxDone,
                 ret, calls, tries, dials, tryOut, selSaw, idleClose, myTask,
                 tasks>>
  /\ UNCHANGED trych

\* rtriplocked with a query: do, up to maybeDial's test of dl.conn
maybeDial(c) ==
  /\ pc[c] = "rtrip"
  /\ ~query[c].isNil
  /\ pc' = [pc EXCEPT ![c] = IF conn # NoConn THEN "try" ELSE "dial"]
  /\ UNCHANGED <<conn, closed, deadlined, dialed, mu, users, query, ctxDone,
                 ret, calls, tries, dials, tryOut, selSaw, idleClose, myTask,
                 tasks>>
  /\ UNCHANGED trych

forceDialForget(c) ==
  /\ pc[c] = "redial"
  /\ pc' = [pc EXCEPT ![c] = IF conn # NoConn THEN "setnil" ELSE "dial"]
  /\ UNCHANGED <<conn, closed, deadlined, dialed, mu, users, query, ctxDone,
                 ret, calls, tries, dials, tryOut, selSaw, idleClose, myTask,
                 tasks>>
  /\ UNCHANGED trych

\* forceDial: if dl.conn != nil { dl.conn.Close() }; the connection is closed
\* and dl.conn still points to it
forceDialClose(c) ==
  /\ pc[c] = "redial"
  /\ IF conn # NoConn
       THEN closed' = closed \cup {conn} /\ pc' = [pc EXCEPT ![c] = "setnil"]
       ELSE UNCHANGED closed /\ pc' = [pc EXCEPT ![c] = "dial"]
  /\ UNCHANGED <<conn, deadlined, dialed, mu, users, query, ctxDone, ret,
                 calls, tries, dials, tryOut, selSaw, idleClose, myTask, tasks>>
  /\ UNCHANGED trych

\* forceDial: dl.conn = nil
forceDialSetNil(c) ==
  /\ pc[c] = "setnil"
  /\ ~query[c].isNil
  /\ conn' = NoConn
  /\ pc' = [pc EXCEPT ![c] = "dial"]
  /\ UNCHANGED <<closed, deadlined, dialed, mu, users, query, ctxDone, ret,
                 calls, tries, dials, tryOut, selSaw, idleClose, myTask, tasks>>
  /\ UNCHANGED trych

\* forceDial: dl.dial(ctx, "tcp", dl.address) succeeds or fails
forceDialDial(c, ok) ==
  /\ pc[c] = "dial"
  /\ dials' = [dials EXCEPT ![c] = @ + 1]
  /\ IF ok
       THEN /\ dialed < MaxDials
            /\ dialed' = dialed + 1
            /\ conn' = dialed + 1
            /\ pc' = [pc EXCEPT ![c] = "try"]
            /\ UNCHANGED ret
       ELSE /\ ret' = [ret EXCEPT ![c] = Result("nil", ErrDial)]
            /\ pc' = [pc EXCEPT ![c] = "unlock"]
            /\ UNCHANGED <<conn, dialed>>
  /\ UNCHANGED <<closed, deadlined, mu, users, query, ctxDone, calls, tries,
                 tryOut, selSaw, idleClose, myTask, tasks>>
  /\ UNCHANGED trych

\* try, first half: ch := make(chan, 1); go dl.asyncTry(ctx, query, ch)
try(c) ==
  /\ pc[c] = "try"
  /\ FreeSlots # {}
  /\ LET t == CHOOSE u \in FreeSlots : \A v \in FreeSlots : u <= v
     IN /\ tasks' = [tasks EXCEPT ![t] = [owner |-> c, pc |-> "start",
                                          q |-> query[c], dconn |-> NoConn,
                                          out |-> NoResult]]
        /\ myTask' = [myTask EXCEPT ![c] = t]
        /\ trych' = [trych EXCEPT ![t] = <<>>]
  /\ tries' = [tries EXCEPT ![c] = @ + 1]
  /\ pc' = [pc EXCEPT ![c] = "select"]
  /\ UNCHANGED <<conn, closed, deadlined, dialed, mu, users, query, ctxDone,
                 ret, calls, dials, tryOut, selSaw, idleClose>>

\* what do does with the outcome out of the try that just returned
doContinue(c, out) ==
  /\ tryOut' = [tryOut EXCEPT ![c] = Append(@, [out |-> out, conn |-> conn])]
  /\ IF DoAfterTry(tries[c], out) = "redial"
       THEN pc' = [pc EXCEPT ![c] = "redial"] /\ UNCHANGED ret
       ELSE /\ pc' = [pc EXCEPT ![c] = "unlock"]
            /\ ret' = [ret EXCEPT ![c] = DoReturn(tries[c], out)]

\* try, the select: case out := <-ch
trySelectResult(c) ==
  /\ pc[c] = "select"
  /\ trych[myTask[c]] # <<>>
  /\ selSaw' = [selSaw EXCEPT ![c] = <<TRUE, ctxDone[c]>>]
  /\ doContinue(c, Head(trych[myTask[c]]))
  /\ trych' = [trych EXCEPT ![myTask[c]] = Tail(@)]
  /\ tasks' = [tasks EXCEPT ![myTask[c]] = FreeTask]
  /\ UNCHANGED <<conn, closed, deadlined, dialed, mu, users, query, ctxDone,
                 calls, tries, dials, idleClose, myTask>>

\* try: return nil, ctx.Err()
TryCtxReturnNoErr == Result("nil", ErrNil)
TryCtxReturn == Result("nil", ErrCtx)

\* try, the select: case <-ctx.Done()
trySelectCtx(c) ==
  /\ pc[c] = "select"
  /\ ctxDone[c]
  /\ selSaw' = [selSaw EXCEPT ![c] = <<trych[myTask[c]] # <<>>, TRUE>>]
  /\ doContinue(c, TryCtxReturn)
  /\ tasks' = IF tasks[myTask[c]].pc = "done"
                THEN [tasks EXCEPT ![myTask[c]] = FreeTask]
                ELSE tasks
  /\ UNCHANGED <<conn, closed, deadlined, dialed, mu, users, query, ctxDone,
                 calls, tries, dials, idleClose, myTask>>
  /\ UNCHANGED trych

\* r.mu.Unlock(); return reply, err.  The frame of the call is gone after
\* the return: the caller's locals go back to their initial values.
roundTripUnlock(c) ==
  /\ pc[c] = "unlock"
  /\ mu' = NoOwner
  /\ pc' = [pc EXCEPT ![c] = "idle"]
  /\ query' = [query EXCEPT ![c] = NilQuery]
  /\ ctxDone' = [ctxDone EXCEPT ![c] = FALSE]
  /\ ret' = [ret EXCEPT ![c] = NoResult]
  /\ tries' = [tries EXCEPT ![c] = 0]
  /\ dials' = [dials EXCEPT ![c] = 0]
  /\ tryOut' = [tryOut EXCEPT ![c] = <<>>]
  /\ selSaw' = [selSaw EXCEPT ![c] = <<FALSE, FALSE>>]
  /\ idleClose' = [idleClose EXCEPT ![c] = "none"]
  /\ myTask' = [myTask EXCEPT ![c] = 0]
  /\ UNCHANGED <<conn, closed, deadlined, dialed, users, calls, tasks>>
  /\ UNCHANGED trych

\* the context of a caller's round trip in progress is canceled or expires
ctxCancel(c) ==
  /\ pc[c] # "idle"
  /\ ~query[c].isNil
  /\ ~ctxDone[c]
  /\ ctxDone' = [ctxDone EXCEPT ![c] = TRUE]
  /\ UNCHANGED <<conn, closed, deadlined, dialed, mu, users, pc, query, ret,
                 calls, tries, dials, tryOut, selSaw, idleClose, myTask, tasks>>
  /\ UNCHANGED trych

(***************************************************************************)
(* asyncTry / trySync, the background goroutine: one step per access to    *)
(* dl.conn.  The goroutine holds no lock; it reads the field dl.conn anew  *)
(* at every statement.                                                     *)
(***************************************************************************)
SetTask(t, p, dc, out) ==
  tasks' = [tasks EXCEPT ![t] = [@ EXCEPT !.pc = p, !.dconn = dc, !.out = out]]

\* len(query) > math.MaxUint16, then defer dl.conn.SetDeadline(time.Time{}),
\* whose receiver dl.conn is evaluated by the defer statement
trySyncStart(t) ==
  /\ tasks[t].pc = "start"
  /\ IF tasks[t].q.len > MaxUint16
       THEN SetTask(t, "send", NoConn, Result("nil", ErrQueryTooLong))
       ELSE IF conn = NoConn
              THEN SetTask(t, "panic", NoConn, NoResult)
              ELSE SetTask(t, "setdl", conn, NoResult)
  /\ UNCHANGED <<conn, closed, deadlined, dialed, mu, users, pc, query,
                 ctxDone, ret, calls, tries, dials, tryOut, selSaw, idleClose,
                 myTask>>
  /\ UNCHANGED trych

\* dl.conn.SetDeadline(time.Now().Add(10 * time.Second))
trySyncSetDeadline(t) ==
  /\ tasks[t].pc = "setdl"
  /\ IF conn = NoConn
       THEN SetTask(t, "panic", tasks[t].dconn, NoResult) /\ UNCHANGED deadlined
       ELSE /\ SetTask(t, "write", tasks[t].dconn, NoResult)
            /\ deadlined' = IF conn \in closed THEN deadlined
                                               ELSE deadlined \cup {conn}
  /\ UNCHANGED <<conn, closed, dialed, mu, users, pc, query, ctxDone, ret,
                 calls, tries, dials, tryOut, selSaw, idleClose, myTask>>
  /\ UNCHANGED trych

\* dl.conn.Write(buf): a failure becomes the redial hint
trySyncWrite(t, ok) ==
  /\ tasks[t].pc = "write"
  /\ IF conn = NoConn
       THEN SetTask(t, "panic", tasks[t].dconn, NoResult)
       ELSE /\ ok => conn \notin closed
            /\ IF ok THEN SetTask(t, "readhdr", tasks[t].dconn, NoResult)
                     ELSE SetTask(t, "clear", tasks[t].dconn,
                                  Result("nil", ErrRedial))
  /\ UNCHANGED <<conn, closed, deadlined, dialed, mu, users, pc, query,
                 ctxDone, ret, calls, tries, dials, tryOut, selSaw, idleClose,
                 myTask>>
  /\ UNCHANGED trych

\* the lengths a reply header may announce
TCPReplyLens == {0, 29}

\* io.ReadFull(dl.conn, header); the header announces a reply of n bytes
trySyncReadHeader(t, ok, n) ==
  /\ tasks[t].pc = "readhdr"
  /\ IF conn = NoConn
       THEN SetTask(t, "panic", tasks[t].dconn, NoResult)
       ELSE /\ ok => conn \notin closed
            /\ IF ok THEN SetTask(t, IF n = 0 THEN "readempty" ELSE "readbody",
                                  tasks[t].dconn, NoResult)
                     ELSE SetTask(t, "clear", tasks[t].dconn,
                                  Result("nil", ErrRead))
  /\ UNCHANGED <<conn, closed, deadlined, dialed, mu, users, pc, query,
                 ctxDone, ret, calls, tries, dials, tryOut, selSaw, idleClose,
                 myTask>>
  /\ UNCHANGED trych

\* io.ReadFull(dl.conn, reply).  With an empty reply buffer ReadFull returns
\* (0, nil) without a call on dl.conn, whatever dl.conn is by then.
trySyncReadBody(t, ok) ==
  /\ tasks[t].pc \in {"readbody", "readempty"}
  /\ IF tasks[t].pc = "readempty"
       THEN /\ ok
            /\ SetTask(t, "clear", tasks[t].dconn, Result("reply", ErrNil))
       ELSE IF conn = NoConn
       THEN SetTask(t, "panic", tasks[t].dconn, NoResult)
       ELSE /\ ok => conn \notin closed
            /\ IF ok THEN SetTask(t, "clear", tasks[t].dconn,
                                  Result("reply", ErrNil))
                     ELSE SetTask(t, "clear", tasks[t].dconn,
                                  Result("nil", ErrRead))
  /\ UNCHANGED <<conn, closed, deadlined, dialed, mu, users, pc, query,
                 ctxDone, ret, calls, tries, dials, tryOut, selSaw, idleClose,
                 myTask>>
  /\ UNCHANGED trych

\* the deferred SetDeadline(time.Time{}) on the connection the defer captured
trySyncClearDeadline(t) ==
  /\ tasks[t].pc = "clear"
  /\ deadlined' = deadlined \ {tasks[t].dconn}
  /\ SetTask(t, "send", tasks[t].dconn, tasks[t].out)
  /\ UNCHANGED <<conn, closed, dialed, mu, users, pc, query, ctxDone, ret,
                 calls, tries, dials, tryOut, selSaw, idleClose, myTask>>
  /\ UNCHANGED trych

\* try: ch := make(chan *dnsOverTCPTLSResult, 1)
TryChanCap == 1

\* what sits in the ch of task t
TryChanLen(t) == Len(trych[t])

\* the try that started task t is still in its select, ready to receive
TryReceiving(t) ==
  /\ tasks[t].pc # "free"
  /\ pc[tasks[t].owner] = "select"
  /\ myTask[tasks[t].owner] = t

\* the send of task t on its ch
TryCanSend(t) == CanSend(TryChanLen(t), TryChanCap, TryReceiving(t))

\* asyncTry: ch <- &out; the goroutine exits after the send.  The slot stays
\* "done" while the try that started the task is still in its select (the
\* result sits in ch); when that try has returned already nobody will read
\* ch, and the slot is free at once with the result left in the buffer.
asyncTrySend(t) ==
  /\ tasks[t].pc = "send"
  /\ TryCanSend(t)
  /\ trych' = [trych EXCEPT ![t] = Append(@, tasks[t].out)]
  /\ IF pc[tasks[t].owner] = "select" /\ myTask[tasks[t].owner] = t
       THEN SetTask(t, "done", tasks[t].dconn, tasks[t].out)
       ELSE tasks' = [tasks EXCEPT ![t] = FreeTask]
  /\ UNCHANGED <<conn, closed, deadlined, dialed, mu, users, pc, query,
                 ctxDone, ret, calls, tries, dials, tryOut, selSaw, idleClose,
                 myTask>>

(***************************************************************************)
(* The TCP/TLS resolver under concurrent callers.                          *)
(***************************************************************************)
InitTCP ==
  /\ conn = NoConn
  /\ closed = {}
  /\ deadlined = {}
  /\ dialed = 0
  /\ mu = NoOwner
  /\ users = 0
  /\ pc = [c \in Callers |-> "idle"]
  /\ query = [c \in Callers |-> NilQuery]
  /\ ctxDone = [c \in Callers |-> FALSE]
  /\ ret = [c \in Callers |-> NoResult]
  /\ calls = 0
  /\ tries = [c \in Callers |-> 0]
  /\ dials = [c \in Callers |-> 0]
  /\ tryOut = [c \in Callers |-> <<>>]
  /\ selSaw = [c \in Callers |-> <<FALSE, FALSE>>]
  /\ idleClose = [c \in Callers |-> "none"]
  /\ myTask = [c \in Callers |-> 0]
  /\ tasks = [t \in TaskIds |-> FreeTask]
  /\ trych = [t \in TaskIds |-> <<>>]


(***************************************************************************)
(* The miekg codec and the dual-query resolver.                            *)
(***************************************************************************)
\* bound: resource records in the answer section of a reply
MaxAnswers == 2

\* query / record types and response codes
TypeA == "A"
TypeAAAA == "AAAA"
TypeCNAME == "CNAME"
QTypes == {TypeA, TypeAAAA}
RcodeSuccess == "NOERROR"
RcodeServerFailure == "SERVFAIL"
RcodeNameError == "NXDOMAIN"
RcodeRefused == "REFUSED"
Rcodes == {RcodeSuccess, RcodeServerFailure, RcodeNameError, RcodeRefused}

ErrDNSNoSuchHost == "no such host"
ErrDNSNoAsnwerFromDNSServer == "no answer from DNS server"
ErrDNSServerTemporarilyMisbehaving == "server misbehaving (temporarily)"
ErrDNSServerMisbehaving == "server misbehaving"
ErrUnpack == "dns: unpack failed"
ErrPack == "dns: pack failed"
\* errors a transport's roundTrip may return
TransportErrs == {"transport error 1", "transport error 2"}

\* the nil error of the resolver layers
NilErr == <<>>

\* dnsLookupHostResult; the nil address list is the empty sequence
LookupHostResult(addrs, err) == [addrs |-> addrs, err |-> err]

\* resource records of the answer section: the record type and its address
RR(type, ip) == [type |-> type, ip |-> ip]
Records == {RR(TypeA, "93.184.216.34"), RR(TypeA, "10.0.0.1"),
            RR(TypeAAAA, "2606:2800:220:1::1"), RR(TypeCNAME, "")}

RECURSIVE SeqsUpTo(_, _)
SeqsUpTo(S, n) ==
  IF n = 0 THEN {<<>>}
  ELSE LET shorter == SeqsUpTo(S, n - 1)
       IN shorter \cup {Append(q, x) : q \in shorter, x \in S}

\* what a transport hands back for one query: an error, or reply bytes
\* that unpack (or not) to a message with a response code and answers
TransportOutcomes ==
  [err : TransportErrs, unpacks : {FALSE}, rcode : {RcodeSuccess}, answer : {<<>>}]
  \cup [err : {ErrNil}, unpacks : {FALSE}, rcode : {RcodeSuccess}, answer : {<<>>}]
  \cup [err : {ErrNil}, unpacks : {TRUE}, rcode : Rcodes,
        answer : SeqsUpTo(Records, MaxAnswers)]

ExtractAddrsOfEveryRecord(qtype, answer) ==
  [i \in 1..Len(answer) |-> answer[i].ip]

\* DecodeLookupHostResponse, the loop over reply.Answer
RECURSIVE ExtractAddrs(_, _)
ExtractAddrs(qtype, answer) ==
  IF answer = <<>> THEN <<>>
  ELSE LET rr == Head(answer)
           rest == ExtractAddrs(qtype, Tail(answer))
       IN IF qtype \in QTypes /\ rr.type = qtype THEN <<rr.ip>> \o rest
                                                 ELSE rest

DecodeLookupHostResponseFallthrough(qtype, data) ==
  IF ~data.unpacks THEN LookupHostResult(<<>>, ErrUnpack)
  ELSE IF data.rcode = RcodeNameError
         THEN LookupHostResult(<<>>, ErrDNSNoSuchHost)
  ELSE IF data.rcode = RcodeServerFailure
         THEN LookupHostResult(<<>>, ErrDNSServerTemporarilyMisbehaving)
  ELSE LookupHostResult(<<>>, ErrDNSServerMisbehaving)

\* dnsMiekgCodec.DecodeLookupHostResponse
DecodeLookupHostResponse(qtype, data) ==
  IF ~data.unpacks THEN LookupHostResult(<<>>, ErrUnpack)
  ELSE IF data.rcode = RcodeNameError
         THEN LookupHostResult(<<>>, ErrDNSNoSuchHost)
  ELSE IF data.rcode = RcodeServerFailure
         THEN LookupHostResult(<<>>, ErrDNSServerTemporarilyMisbehaving)
  ELSE IF data.rcode # RcodeSuccess
         THEN LookupHostResult(<<>>, ErrDNSServerMisbehaving)
  ELSE LET addrs == ExtractAddrs(qtype, data.answer)
       IN IF Len(addrs) <= 0
            THEN LookupHostResult(<<>>, ErrDNSNoAsnwerFromDNSServer)
            ELSE LookupHostResult(addrs, ErrNil)

\* dnsGenericResolver.doLookupHost: encode, round trip, decode
doLookupHost(qtype, packs, rt) ==
  IF ~packs THEN LookupHostResult(<<>>, ErrPack)
  ELSE IF rt.err # ErrNil THEN LookupHostResult(<<>>, rt.err)
  ELSE DecodeLookupHostResponse(qtype, rt)

MergeRepliesSecondError(replyA, replyAAAA) ==
  IF replyA.err # ErrNil /\ replyAAAA.err # ErrNil
    THEN LookupHostResult(<<>>, replyAAAA.err)
    ELSE LET addrs == replyA.addrs \o replyAAAA.addrs
         IN IF Len(addrs) < 1
              THEN LookupHostResult(<<>>, ErrDNSNoAsnwerFromDNSServer)
              ELSE LookupHostResult(addrs, ErrNil)

MergeRepliesSwapped(replyA, replyAAAA) ==
  IF replyA.err # ErrNil /\ replyAAAA.err # ErrNil
    THEN LookupHostResult(<<>>, replyA.err)
    ELSE LET addrs == replyAAAA.addrs \o replyA.addrs
         IN IF Len(addrs) < 1
              THEN LookupHostResult(<<>>, ErrDNSNoAsnwerFromDNSServer)
              ELSE LookupHostResult(addrs, ErrNil)

\* dnsGenericResolver.LookupHost, from the two replies to the return value
MergeReplies(replyA, replyAAAA) ==
  IF replyA.err # ErrNil /\ replyAAAA.err # ErrNil
    THEN LookupHostResult(<<>>, replyA.err)
    ELSE LET addrs == replyA.addrs \o replyAAAA.addrs
         IN IF Len(addrs) < 1
              THEN LookupHostResult(<<>>, ErrDNSNoAsnwerFromDNSServer)
              ELSE LookupHostResult(addrs, ErrNil)

NoLookupHostResult == LookupHostResult(<<>>, ErrNil)

\* LookupHost: make the two channels, go r.asyncLookupHost(..., TypeA, resA)
genericLookupHostStart ==
  /\ gpc = "start"
  /\ dpc = "called"
  /\ gtask' = [gtask EXCEPT ![TypeA] = "running"]
  /\ gpc' = "recvA"
  /\ UNCHANGED <<gres, greply, gret, gmon, dpc, dret>>

\* an event given to the monitor of the context
MonitorEvent(ev, qtype, addrs, err) ==
  [ev |-> ev, qtype |-> qtype, addrs |-> addrs, err |-> err]

\* doLookupHost: EncodeLookupHostRequest calls OnDNSSendQuery before it packs
\* the query; DecodeLookupHostResponse calls OnDNSRecvReply when the reply
\* unpacks
doLookupHostEvents(qtype, packs, rt) ==
  <<MonitorEvent("OnDNSSendQuery", qtype, <<>>, NilErr)>>
  \o IF packs /\ rt.err = ErrNil /\ rt.unpacks
       THEN <<MonitorEvent("OnDNSRecvReply", qtype, <<>>, NilErr)>>
       ELSE <<>>

\* asyncLookupHost: r.doLookupHost(ctx, hostname, qtype, padding), then the
\* goroutine blocks sending on its unbuffered channel
asyncLookupHost(qtype, packs, rt) ==
  /\ gtask[qtype] = "running"
  /\ gres' = [gres EXCEPT ![qtype] = doLookupHost(qtype, packs, rt)]
  /\ gtask' = [gtask EXCEPT ![qtype] = "sending"]
  /\ gmon' = gmon \o doLookupHostEvents(qtype, packs, rt)
  /\ UNCHANGED <<gpc, greply, gret, dpc, dret>>

genericLookupHostRecvAReturnOnError ==
  /\ gpc = "recvA"
  /\ gtask[TypeA] = "sending"
  /\ greply' = [greply EXCEPT ![TypeA] = gres[TypeA]]
  /\ gtask' = [gtask EXCEPT ![TypeA] = "exited"]
  /\ IF gres[TypeA].err # ErrNil
       THEN /\ gret' = LookupHostResult(<<>>, gres[TypeA].err)
            /\ gpc' = "done"
       ELSE /\ gpc' = "goAAAA"
            /\ UNCHANGED gret
  /\ UNCHANGED <<gres, gmon, dpc, dret>>

\* LookupHost: replyA := <-resA
genericLookupHostRecvA ==
  /\ gpc = "recvA"
  /\ gtask[TypeA] = "sending"
  /\ greply' = [greply EXCEPT ![TypeA] = gres[TypeA]]
  /\ gtask' = [gtask EXCEPT ![TypeA] = "exited"]
  /\ gpc' = "goAAAA"
  /\ UNCHANGED <<gres, gret, gmon, dpc, dret>>

\* LookupHost: go r.asyncLookupHost(..., TypeAAAA, resAAAA)
genericLookupHostGoAAAA ==
  /\ gpc = "goAAAA"
  /\ gtask' = [gtask EXCEPT ![TypeAAAA] = "running"]
  /\ gpc' = "recvAAAA"
  /\ UNCHANGED <<gres, greply, gret, gmon, dpc, dret>>

\* LookupHost: replyAAAA := <-resAAAA, then the merge and the return
genericLookupHostRecvAAAA ==
  /\ gpc = "recvAAAA"
  /\ gtask[TypeAAAA] = "sending"
  /\ greply' = [greply EXCEPT ![TypeAAAA] = gres[TypeAAAA]]
  /\ gtask' = [gtask EXCEPT ![TypeAAAA] = "exited"]
  /\ gret' = MergeReplies(greply[TypeA], gres[TypeAAAA])
  /\ gpc' = "done"
  /\ UNCHANGED <<gres, gmon, dpc, dret>>

InitGeneric ==
  /\ gpc = "start"
  /\ gtask = [q \in QTypes |-> "idle"]
  /\ gres = [q \in QTypes |-> NoLookupHostResult]
  /\ greply = [q \in QTypes |-> NoLookupHostResult]
  /\ gret = NoLookupHostResult
  /\ gmon = <<>>
  /\ dpc = "idle"
  /\ dret = LookupHostResult(<<>>, NilErr)


(***************************************************************************)
(* resolverSystem.LookupHost: the OS lookup raced against the context.     *)
(***************************************************************************)
\* bound: LookupHost calls made one after the other on one resolverSystem
MaxSysCalls == 2
SysCalls == 1..MaxSysCalls

ErrCanceled == "context canceled"
ErrDeadlineExceeded == "context deadline exceeded"
ErrLookup == "lookup failed"

\* ctx.Err() of a context in state st
CtxErr(st) == IF st = "canceled" THEN ErrCanceled
              ELSE IF st = "deadline" THEN ErrDeadlineExceeded
              ELSE ErrNil

\* what r.lookupHost()(ctx, hostname) may return; the addresses carry the
\* number of the call that asked for them
SysLookupOutcomes(k) ==
  [addrs : {<<>>, <<<<"addr1", k>>>>, <<<<"addr1", k>>, <<"addr2", k>>>>},
   err : {ErrNil, ErrLookup, ErrCanceled}]

SysChanShared(k) == 1

\* the channels the goroutine of call k sends to: each call makes its own
SysChanOf(k) == k

\* addrsch, errch := make(chan []string, 1), make(chan error, 1)
SysChanCap == 1

\* the send of the goroutine of call k on ch goes through when the buffer has
\* room or LookupHost is still in the select of that call
SysCanSend(ch, k) ==
  CanSend(Len(ch[SysChanOf(k)]), SysChanCap, spc = "select" /\ scall = k)

\* the select, case <-ctx.Done(): return nil, ctx.Err()
SysCtxOutcome(st) == LookupHostResult(<<>>, CtxErr(st))

\* a caller enters LookupHost: the channels are made, the context gets its
\* timeout, the goroutine starts.  The parent context may be done already.
sysLookupHost(parentDone) ==
  /\ spc \in {"idle", "returned"}
  /\ scall < MaxSysCalls
  /\ scall' = scall + 1
  /\ spc' = "select"
  /\ sctx' = IF parentDone THEN "canceled" ELSE "live"
  /\ stask' = [stask EXCEPT ![scall + 1] = "running"]
  /\ ssaw' = [ctx |-> FALSE, addrs |-> FALSE, err |-> FALSE]
  /\ sret' = NoLookupHostResult
  /\ UNCHANGED <<addrsch, errch>>

\* the caller's context is canceled while the call is in progress
sysCtxCancel ==
  /\ spc = "select"
  /\ sctx = "live"
  /\ sctx' = "canceled"
  /\ UNCHANGED <<scall, spc, stask, addrsch, errch, ssaw, sret>>

\* the timeout of context.WithTimeout (r.timeout(), 15 s by default) fires
sysCtxTimeout ==
  /\ spc = "select"
  /\ sctx = "live"
  /\ sctx' = "deadline"
  /\ UNCHANGED <<scall, spc, stask, addrsch, errch, ssaw, sret>>

\* the goroutine of call k: the lookup returns, one send, the goroutine ends
sysLookupTask(k, out) ==
  /\ stask[k] = "running"
  /\ stask' = [stask EXCEPT ![k] = "exited"]
  /\ IF out.err # ErrNil THEN SysCanSend(errch, k) ELSE SysCanSend(addrsch, k)
  /\ IF out.err # ErrNil
       THEN /\ errch' = [errch EXCEPT ![SysChanOf(k)] = Append(@, out.err)]
            /\ UNCHANGED addrsch
       ELSE /\ addrsch' = [addrsch EXCEPT ![SysChanOf(k)] = Append(@, out.addrs)]
            /\ UNCHANGED errch
  /\ UNCHANGED <<scall, spc, sctx, ssaw, sret>>

\* what the select of the current call finds ready
SysReady == [ctx |-> sctx # "live",
             addrs |-> addrsch[SysChanOf(scall)] # <<>>,
             err |-> errch[SysChanOf(scall)] # <<>>]

\* the return of LookupHost runs the deferred cancel()
SysAfterReturn == IF sctx = "live" THEN "canceled" ELSE sctx

\* select, case <-ctx.Done()
sysSelectCtx ==
  /\ spc = "select"
  /\ sctx # "live"
  /\ ssaw' = SysReady
  /\ sret' = SysCtxOutcome(sctx)
  /\ spc' = "returned"
  /\ UNCHANGED <<scall, sctx, stask, addrsch, errch>>

\* select, case addrs := <-addrsch
sysSelectAddrs ==
  /\ spc = "select"
  /\ addrsch[SysChanOf(scall)] # <<>>
  /\ ssaw' = SysReady
  /\ sret' = LookupHostResult(Head(addrsch[SysChanOf(scall)]), ErrNil)
  /\ addrsch' = [addrsch EXCEPT ![SysChanOf(scall)] = Tail(@)]
  /\ spc' = "returned"
  /\ sctx' = SysAfterReturn
  /\ UNCHANGED <<scall, stask, errch>>

\* select, case err := <-errch
sysSelectErr ==
  /\ spc = "select"
  /\ errch[SysChanOf(scall)] # <<>>
  /\ ssaw' = SysReady
  /\ sret' = LookupHostResult(<<>>, Head(errch[SysChanOf(scall)]))
  /\ errch' = [errch EXCEPT ![SysChanOf(scall)] = Tail(@)]
  /\ spc' = "returned"
  /\ sctx' = SysAfterReturn
  /\ UNCHANGED <<scall, stask, addrsch>>

InitSystem ==
  /\ scall = 0
  /\ spc = "idle"
  /\ sctx = "live"
  /\ stask = [k \in SysCalls |-> "none"]
  /\ addrsch = [k \in SysCalls |-> <<>>]
  /\ errch = [k \in SysCalls |-> <<>>]
  /\ ssaw = [ctx |-> FALSE, addrs |-> FALSE, err |-> FALSE]
  /\ sret = NoLookupHostResult


(***************************************************************************)
(* The resolver layers, each taken alone over an arbitrary inner resolver. *)
(* In this part an error is the chain of its wrappers, outermost first:    *)
(* the nil error is the empty chain and Unwrap drops the head.             *)
(***************************************************************************)
WrapErr(tag, err) == <<tag>> \o err
ErrIDNA == <<"idna: invalid label">>

\* golang.org/x/net/idna ToASCII on the hostnames of the model
Hostnames == {"example.com", "1.1.1.1", "::1", "b<U+00FC>cher.example", "xn--0000h"}
ToASCII(h) ==
  IF h = "b<U+00FC>cher.example" THEN [ok |-> TRUE, host |-> "xn--bcher-kva.example"]
  ELSE IF h = "xn--0000h" THEN [ok |-> FALSE, host |-> ""]
  ELSE [ok |-> TRUE, host |-> h]

\* net.ParseIP(h) != nil on the hostnames of the model
ParsesAsIP(h) == h \in {"1.1.1.1", "::1"}

\* what an inner resolver may return, contract-abiding or not
InnerResults ==
  [addrs : {<<>>, <<"93.184.216.34">>, <<"93.184.216.34", "2606:2800:220:1::1">>},
   err : {NilErr, <<"no such host">>, <<"generic timeout error">>}]

DNSResolverLookupHostRawError(h, inner) == inner

\* oonet DNSResolver.LookupHost
DNSResolverLookupHost(h, inner) ==
  LookupHostResult(inner.addrs,
                   IF inner.err # NilErr THEN WrapErr("ErrLookupHost", inner.err)
                                         ELSE inner.err)

resolverLoggerPassThrough(h, inner) == inner

\* resolverLogger.LookupHost
resolverLoggerLookupHost(h, inner) ==
  IF inner.err # NilErr THEN LookupHostResult(<<>>, inner.err)
                        ELSE LookupHostResult(inner.addrs, NilErr)

resolverErrWrapperNoWrap(h, inner) ==
  IF inner.err # NilErr THEN LookupHostResult(<<>>, inner.err)
                        ELSE LookupHostResult(inner.addrs, NilErr)

\* resolverErrWrapper.LookupHost
resolverErrWrapperLookupHost(h, inner) ==
  IF inner.err # NilErr
    THEN LookupHostResult(<<>>, WrapErr("ErrWrapper:resolve", inner.err))
    ELSE LookupHostResult(inner.addrs, NilErr)

\* quicDialerErrWrapper.DialContext: inner is what the wrapped QUICDialer
\* returned, the session in the place of the addresses
quicDialerErrWrapperDialContext(inner) ==
  IF inner.err # NilErr
    THEN LookupHostResult(<<>>, WrapErr("ErrWrapper:quic_handshake", inner.err))
    ELSE LookupHostResult(inner.addrs, NilErr)

\* resolverShortCircuitIPAddr.LookupHost
resolverShortCircuitIPAddrLookupHost(h, inner) ==
  IF ParsesAsIP(h) THEN LookupHostResult(<<h>>, NilErr) ELSE inner

\* resolverIDNA.LookupHost
resolverIDNALookupHost(h, inner) ==
  IF ~ToASCII(h).ok THEN LookupHostResult(<<>>, ErrIDNA) ELSE inner

\* DNSResolver.LookupHost is called: OnDNSLookupHostStart, then LookupHost of
\* the underlying resolver
dnsResolverLookupHostStart ==
  /\ dpc = "idle"
  /\ dpc' = "called"
  /\ gmon' = Append(gmon, MonitorEvent("OnDNSLookupHostStart", "", <<>>, NilErr))
  /\ UNCHANGED <<gpc, gtask, gres, greply, gret, dret>>

\* what the underlying resolver returned, as DNSResolver receives it
UnderlyingReturn ==
  LookupHostResult(gret.addrs, IF gret.err = ErrNil THEN NilErr ELSE <<gret.err>>)

dnsResolverLookupHostDoneBeforeWrap ==
  /\ dpc = "called"
  /\ gpc = "done"
  /\ dret' = DNSResolverLookupHost("example.com", UnderlyingReturn)
  /\ gmon' = Append(gmon, MonitorEvent("OnDNSLookupHostDone", "",
                                       UnderlyingReturn.addrs,
                                       UnderlyingReturn.err))
  /\ dpc' = "returned"
  /\ UNCHANGED <<gpc, gtask, gres, greply, gret>>

\* DNSResolver.LookupHost, after the underlying resolver returned: the error
\* is wrapped, OnDNSLookupHostDone gets addrs and the wrapped error, and both
\* are returned
dnsResolverLookupHostDone ==
  /\ dpc = "called"
  /\ gpc = "done"
  /\ LET out == DNSResolverLookupHost("example.com", UnderlyingReturn)
     IN /\ dret' = out
        /\ gmon' = Append(gmon, MonitorEvent("OnDNSLookupHostDone", "",
                                             out.addrs, out.err))
  /\ dpc' = "returned"
  /\ UNCHANGED <<gpc, gtask, gres, greply, gret>>

\* the layers that hand the inner resolver's return value on as it is
PassThroughLayers == {"DNSResolver", "resolverShortCircuitIPAddr", "resolverIDNA"}
Layers == PassThroughLayers \cup {"resolverLogger", "resolverErrWrapper"}

LayerReturns(layer, out) ==
  /\ lLayer = "none"
  /\ lLayer' = layer
  /\ lOut' = out
  /\ UNCHANGED <<lHost, lInner>>

layerDNSResolver == LayerReturns("DNSResolver", DNSResolverLookupHost(lHost, lInner))
layerLogger == LayerReturns("resolverLogger", resolverLoggerLookupHost(lHost, lInner))
layerErrWrapper ==
  LayerReturns("resolverErrWrapper", resolverErrWrapperLookupHost(lHost, lInner))
layerShortCircuit ==
  LayerReturns("resolverShortCircuitIPAddr",
               resolverShortCircuitIPAddrLookupHost(lHost, lInner))
layerIDNA == LayerReturns("resolverIDNA", resolverIDNALookupHost(lHost, lInner))
layerQUICErrWrapper ==
  LayerReturns("quicDialerErrWrapper", quicDialerErrWrapperDialContext(lInner))

\* the component has not run: any hostname, any inner resolver
InitLayers ==
  /\ lHost \in Hostnames
  /\ lInner \in InnerResults
  /\ lLayer = "none"
  /\ lOut = LookupHostResult(<<>>, NilErr)


(***************************************************************************)
(* WrapResolver / NewResolverSystem: the chain of layers around a concrete *)
(* resolver.  One step per entry into a layer and per return from it.      *)
(***************************************************************************)
ErrNoResolver == <<"no configured resolver">>

\* nullResolver.LookupHost
nullResolverLookupHost(h) == LookupHostResult(<<>>, ErrNoResolver)

\* the concrete resolvers given to WrapResolver
ConcreteResolvers == {"resolverSystem", "nullResolver"}
NoResolver == "none"

\* resolverSystem.Network, nullResolver.Network
ConcreteNetwork(r) == IF r = "nullResolver" THEN "null" ELSE "system"

\* resolverSystem.Address, nullResolver.Address
ConcreteAddress(r) == ""

\* what LookupHost of the concrete resolver r may return for h: the system
\* resolver anything, the null resolver its one error
ConcreteLookupHost(r, h) ==
  IF r = "nullResolver" THEN {nullResolverLookupHost(h)} ELSE InnerResults

\* the factories of the chain.  WrapResolver puts the chain around the
\* resolver it is given; its resolverLogger names the network and the
\* address of the resolver in its lines.  NewResolverSystem puts the same
\* layers around a resolverSystem; its resolverLogger logs the hostname
\* alone.
WrapBuilds == {"WrapResolver", "NewResolverSystem"}
NoBuild == "none"

\* the concrete resolvers a factory puts inside the chain
BuildResolvers(b) ==
  IF b = "NewResolverSystem" THEN {"resolverSystem"} ELSE ConcreteResolvers

\* the calls that reach the concrete resolver while resolverLogger builds
\* its prefix.  The logger of WrapResolver evaluates r.Network(), then
\* r.Address(): each is r.Resolver.Network() or Address(), which the
\* short-circuit layer and the error wrapper below hand on to the concrete
\* resolver.  The logger of NewResolverSystem makes no such call.
resolverLoggerPrefixCalls(b) ==
  IF b = "NewResolverSystem" THEN <<>> ELSE <<"Network", "Address">>

\* LookupHTTPS and LookupNS need a DNS transport
ErrNoDNSTransport == <<"operation requires a DNS transport">>

\* LookupNS of an IP address
ErrDNSIPAddress == <<"ooresolver: expected domain, found IP address">>

\* model.HTTPSSvc
HTTPSSvc(alpn, ipv4, ipv6) == [ALPN |-> alpn, IPv4 |-> ipv4, IPv6 |-> ipv6]

\* isIPv6: strings.Contains(candidate, ":") on the hostnames of the model
isIPv6(h) == h = "::1"

\* the methods every layer of the chain hands on to its inner resolver
Forwarded == {"Network", "Address", "CloseIdleConnections"}

WrapResolverShortCircuitBeforeLogger ==
  <<"resolverIDNA", "resolverShortCircuitIPAddr", "resolverLogger",
    "resolverErrWrapper">>

\* WrapResolver, NewResolverSystem: the layers, outermost first
WrapResolver ==
  <<"resolverIDNA", "resolverLogger", "resolverShortCircuitIPAddr",
    "resolverErrWrapper">>

resolverShortCircuitIPAddrDelegatesAlways(h) == TRUE

\* resolverShortCircuitIPAddr.LookupHost calls r.Resolver.LookupHost unless
\* net.ParseIP(hostname) != nil
resolverShortCircuitIPAddrDelegates(h) == ~ParsesAsIP(h)

resolverIDNADelegatesAlways(h) == TRUE

\* resolverIDNA.LookupHost calls r.Resolver.LookupHost unless ToASCII failed
resolverIDNADelegates(h) == ToASCII(h).ok

\* the prefix of the lines of resolverLogger.  WrapResolver:
\* "<kind> <hostname> with <network> (<address>)", where kind is
\* resolve[A,AAAA], resolve[HTTPS] or resolve[NS].  NewResolverSystem:
\* "resolve <hostname>".
LogPrefix(kind, h, r, b) ==
  IF b = "NewResolverSystem" THEN <<"resolve", h>>
  ELSE <<kind, h, ConcreteNetwork(r), ConcreteAddress(r)>>

\* a line given to Logger.Debugf: the prefix, and for the completion line
\* the error or the addresses (the elapsed time is left out)
LogLine(prefix, done, addrs, err) ==
  [prefix |-> prefix, done |-> done, addrs |-> addrs, err |-> err]

\* resolverLogger, before the inner call: r.Logger.Debugf("%s...", prefix)
resolverLoggerStart(prefix) == <<LogLine(prefix, FALSE, <<>>, NilErr)>>

resolverLoggerDoneSilentOnError(prefix, inner) ==
  IF inner.err # NilErr
    THEN <<>>
    ELSE <<LogLine(prefix, TRUE, inner.addrs, NilErr)>>

\* resolverLogger, after the inner call returned inner: the line with the
\* error, or the line with what was found, under the same prefix
resolverLoggerDone(prefix, inner) ==
  IF inner.err # NilErr
    THEN <<LogLine(prefix, TRUE, <<>>, inner.err)>>
    ELSE <<LogLine(prefix, TRUE, inner.addrs, NilErr)>>

\* whether the layer, called with h, calls its inner resolver
LayerDelegates(layer, h) ==
  CASE layer = "resolverIDNA" -> resolverIDNADelegates(h)
    [] layer = "resolverShortCircuitIPAddr" -> resolverShortCircuitIPAddrDelegates(h)
    [] OTHER -> TRUE

\* the hostname the layer hands to its inner resolver
LayerPasses(layer, h) ==
  IF layer = "resolverIDNA" THEN ToASCII(h).host ELSE h

\* what the layer, called with h, returns when its inner call returned inner
LayerLookupHost(layer, h, inner) ==
  CASE layer = "resolverIDNA" -> resolverIDNALookupHost(h, inner)
    [] layer = "resolverLogger" -> resolverLoggerLookupHost(h, inner)
    [] layer = "resolverShortCircuitIPAddr" ->
         resolverShortCircuitIPAddrLookupHost(h, inner)
    [] layer = "resolverErrWrapper" -> resolverErrWrapperLookupHost(h, inner)

\* no value yet
NoWrapValue == LookupHostResult(<<>>, NilErr)

\* no call of another method
NoOtherCall == [method |-> "none", arg |-> "", ret |-> NoWrapValue]

\* the caller calls LookupHost(ctx, h) on the resolver that factory b built
\* around the concrete resolver r
wrapLookupHost(h, r, b) ==
  /\ wpc = "idle"
  /\ r \in BuildResolvers(b)
  /\ wpc' = "down"
  /\ wdepth' = 1
  /\ whost' = <<h>>
  /\ wres' = r
  /\ wbuild' = b
  /\ UNCHANGED <<wtrace, wconc, wval, wlog, wmeta, wother>>

\* LookupHTTPS and LookupNS of the concrete resolver r: resolverSystem has
\* no DNS transport, nullResolver no resolver
ConcreteLookupOther(r) ==
  LookupHostResult(<<>>, IF r = "nullResolver" THEN ErrNoResolver
                                               ELSE ErrNoDNSTransport)

\* resolverShortCircuitIPAddr.LookupHTTPS and LookupNS, called with the IP
\* address h: the HTTPS lookup answers with the address itself, in the list
\* of its family; the NS lookup fails
resolverShortCircuitIPAddrLookupOther(m, h) ==
  IF m = "LookupNS" THEN LookupHostResult(<<>>, ErrDNSIPAddress)
  ELSE LookupHostResult(IF isIPv6(h) THEN HTTPSSvc(<<>>, <<>>, <<h>>)
                                     ELSE HTTPSSvc(<<>>, <<h>>, <<>>),
                        NilErr)

\* the caller calls LookupHTTPS(ctx, h) or LookupNS(ctx, h) on the resolver
\* WrapResolver built around r.  The layers do what they do for LookupHost:
\* resolverIDNA converts or fails, resolverLogger asks for network and
\* address, logs, calls and logs, resolverShortCircuitIPAddr answers for an
\* IP address, resolverErrWrapper wraps the error of the concrete resolver.
wrapLookupOther(m, h, r) ==
  /\ wpc = "idle"
  /\ LET a == ToASCII(h)
         kind == IF m = "LookupNS" THEN "resolve[NS]" ELSE "resolve[HTTPS]"
         prefix == LogPrefix(kind, a.host, r, "WrapResolver")
         below ==
           IF ParsesAsIP(a.host)
             THEN resolverShortCircuitIPAddrLookupOther(m, a.host)
             ELSE resolverErrWrapperLookupHost(a.host, ConcreteLookupOther(r))
     IN /\ wother' = [method |-> m, arg |-> h,
                      ret |-> IF a.ok THEN below
                                      ELSE LookupHostResult(<<>>, ErrIDNA)]
        /\ wlog' = IF a.ok
                     THEN resolverLoggerStart(prefix)
                            \o resolverLoggerDone(prefix, below)
                     ELSE <<>>
        /\ wmeta' = IF ~a.ok THEN <<>>
                    ELSE resolverLoggerPrefixCalls("WrapResolver")
                           \o IF ParsesAsIP(a.host) THEN <<>> ELSE <<m>>
  /\ wpc' = "other"
  /\ wres' = r
  /\ wbuild' = "WrapResolver"
  /\ UNCHANGED <<wdepth, whost, wtrace, wconc, wval>>

wrapLookupHTTPS(h, r) == wrapLookupOther("LookupHTTPS", h, r)
wrapLookupNS(h, r) == wrapLookupOther("LookupNS", h, r)

\* what the concrete resolver r answers to a forwarded call
ConcreteForwarded(m, r) ==
  CASE m = "Network" -> <<ConcreteNetwork(r)>>
    [] m = "Address" -> <<ConcreteAddress(r)>>
    [] OTHER -> <<>>

\* the caller calls Network(), Address() or CloseIdleConnections() on the
\* resolver factory b built around r: every layer hands the call to its inner
\* resolver, the concrete resolver answers, nothing is logged
wrapForward(m, r, b) ==
  /\ wpc = "idle"
  /\ r \in BuildResolvers(b)
  /\ wother' = [method |-> m, arg |-> "",
                ret |-> LookupHostResult(ConcreteForwarded(m, r), NilErr)]
  /\ wmeta' = <<m>>
  /\ wpc' = "other"
  /\ wres' = r
  /\ wbuild' = b
  /\ UNCHANGED <<wdepth, whost, wtrace, wconc, wval, wlog>>

\* the layer at wdepth is entered: it delegates to its inner resolver, or it
\* returns without calling it.  The logger of WrapResolver first asks the
\* concrete resolver, through the layers in between, for its network and
\* its address.
wrapEnter ==
  /\ wpc = "down"
  /\ LET layer == WrapResolver[wdepth]
         h == whost[wdepth]
         prefix == LogPrefix("resolve[A,AAAA]", h, wres, wbuild)
     IN /\ wtrace' = Append(wtrace, layer)
        /\ wlog' = IF layer = "resolverLogger"
                     THEN wlog \o resolverLoggerStart(prefix) ELSE wlog
        /\ wmeta' = IF layer = "resolverLogger"
                      THEN wmeta \o resolverLoggerPrefixCalls(wbuild)
                      ELSE wmeta
        /\ IF LayerDelegates(layer, h)
             THEN /\ whost' = Append(whost, LayerPasses(layer, h))
                  /\ wdepth' = wdepth + 1
                  /\ wpc' = IF wdepth = Len(WrapResolver) THEN "concrete"
                                                          ELSE "down"
                  /\ UNCHANGED wval
             ELSE /\ wval' = LayerLookupHost(layer, h, NoWrapValue)
                  /\ wdepth' = wdepth - 1
                  /\ wpc' = IF wdepth = 1 THEN "done" ELSE "up"
                  /\ UNCHANGED whost
  /\ UNCHANGED <<wconc, wres, wbuild, wother>>

\* LookupHost of the concrete resolver runs and returns r
wrapConcrete(r) ==
  /\ wpc = "concrete"
  /\ r \in ConcreteLookupHost(wres, whost[Len(whost)])
  /\ wtrace' = Append(wtrace, "concrete")
  /\ wconc' = r
  /\ wval' = r
  /\ wdepth' = Len(WrapResolver)
  /\ wpc' = "up"
  /\ UNCHANGED <<whost, wlog, wres, wmeta, wbuild, wother>>

\* the inner call of the layer at wdepth has returned wval: the layer returns
wrapReturn ==
  /\ wpc = "up"
  /\ wval' = LayerLookupHost(WrapResolver[wdepth], whost[wdepth], wval)
  /\ wlog' = IF WrapResolver[wdepth] = "resolverLogger"
               THEN wlog \o resolverLoggerDone(
                               LogPrefix("resolve[A,AAAA]", whost[wdepth],
                                         wres, wbuild), wval)
               ELSE wlog
  /\ wdepth' = wdepth - 1
  /\ wpc' = IF wdepth = 1 THEN "done" ELSE "up"
  /\ UNCHANGED <<whost, wtrace, wconc, wres, wmeta, wbuild, wother>>

InitWrap ==
  /\ wpc = "idle"
  /\ wdepth = 0
  /\ whost = <<>>
  /\ wtrace = <<>>
  /\ wconc = NoWrapValue
  /\ wval = NoWrapValue
  /\ wlog = <<>>
  /\ wres = NoResolver
  /\ wmeta = <<>>
  /\ wbuild = NoBuild
  /\ wother = NoOtherCall


(***************************************************************************)
(* NewSingleUseQUICDialer: a dialer around one established session.        *)
(***************************************************************************)
\* bound: goroutines calling DialContext on one single-use dialer
NumDialCallers == 2
\* bound: DialContext calls made on it in one behaviour
MaxDialCalls == 3

DialCallers == 1..NumDialCallers

ErrNoConnReuse == <<"no connection reuse">>

\* the address arguments of the calls; the dialer ignores them
SingleUseAddresses == {"", "8.8.8.8:443"}

\* (quic.EarlySession, error) as DialContext returns it
DialResult(sess, err) == [sess |-> sess, err |-> err]

singleUseMayLockAlways(owner) == TRUE

\* s.Lock(): the caller goes on when nobody holds the mutex
singleUseMayLock(owner) == owner = NoOwner

\* DialContext is called and takes the lock
singleUseDialContext(c, a) ==
  /\ suPc[c] = "idle"
  /\ suCalls < MaxDialCalls
  /\ singleUseMayLock(suMu)
  /\ suMu' = c
  /\ suCalls' = suCalls + 1
  /\ suArg' = [suArg EXCEPT ![c] = a]
  /\ suPc' = [suPc EXCEPT ![c] = "check"]
  /\ UNCHANGED <<suSess, suLocal, suLog>>

\* if s.sess == nil { return nil, ErrNoConnReuse }
singleUseCheck(c) ==
  /\ suPc[c] = "check"
  /\ IF suSess = "nil"
       THEN /\ suLog' = Append(suLog, [caller |-> c, arg |-> suArg[c],
                                       ret |-> DialResult("nil", ErrNoConnReuse)])
            /\ suPc' = [suPc EXCEPT ![c] = "unlock"]
            /\ UNCHANGED suLocal
       ELSE /\ suLocal' = [suLocal EXCEPT ![c] = suSess]
            /\ suPc' = [suPc EXCEPT ![c] = "take"]
            /\ UNCHANGED suLog
  /\ UNCHANGED <<suSess, suMu, suArg, suCalls>>

\* sess, s.sess = s.sess, nil; return sess, nil
singleUseTake(c) ==
  /\ suPc[c] = "take"
  /\ suSess' = "nil"
  /\ suLog' = Append(suLog, [caller |-> c, arg |-> suArg[c],
                             ret |-> DialResult(suLocal[c], NilErr)])
  /\ suPc' = [suPc EXCEPT ![c] = "unlock"]
  /\ UNCHANGED <<suMu, suArg, suLocal, suCalls>>

\* the deferred s.Unlock(), and the return
singleUseUnlock(c) ==
  /\ suPc[c] = "unlock"
  /\ suMu' = IF suMu = c THEN NoOwner ELSE suMu
  /\ suPc' = [suPc EXCEPT ![c] = "idle"]
  /\ suLocal' = [suLocal EXCEPT ![c] = "nil"]
  /\ UNCHANGED <<suSess, suArg, suCalls, suLog>>

\* NewSingleUseQUICDialer(sess)
InitSingleUse ==
  /\ suSess = "sess"
  /\ suMu = NoOwner
  /\ suPc = [c \in DialCallers |-> "idle"]
  /\ suArg = [c \in DialCallers |-> ""]
  /\ suLocal = [c \in DialCallers |-> "nil"]
  /\ suCalls = 0
  /\ suLog = <<>>


(***************************************************************************)
(* quicDialerResolver over quicDialerQUICGo: DialContext resolves the host *)
(* of the address and attempts the addresses it got one after the other.   *)
(***************************************************************************)
\* bound: addresses a resolver returns for one hostname
MaxAddrs == 2

\* a "host:port" address argument; an address may lack the port
Addr(host, port) == [host |-> host, port |-> port, hasPort |-> TRUE]
NoPortAddr(host) == [host |-> host, port |-> 0, hasPort |-> FALSE]
QUICAddresses ==
  {Addr("www.google.com", 443), Addr("dns.google.com", 8853),
   Addr("dns.google.com", 853), Addr("1.1.1.1", 443),
   NoPortAddr("www.google.com")}

\* net.SplitHostPort
SplitHostPort(a) ==
  IF a.hasPort THEN [host |-> a.host, port |-> a.port, err |-> NilErr]
               ELSE [host |-> "", port |-> 0, err |-> <<"missing port in address">>]

\* net.JoinHostPort
JoinHostPort(host, port) == Addr(host, port)

\* the fields of tls.Config the dialers look at
TLSConfig(rootCAs, nextProtos, serverName) ==
  [RootCAs |-> rootCAs, NextProtos |-> nextProtos, ServerName |-> serverName]
TLSConfigs ==
  [RootCAs : {"nil", "custom pool"}, NextProtos : {<<>>, <<"h2">>},
   ServerName : {"", "sni.example"}]
NoTLSConfig == TLSConfig("nil", <<>>, "")


\* what a mock resolver returns: an error, or one or more IP addresses
MockResolverOutcomes ==
  {LookupHostResult(<<>>, <<"mocked error">>)}
  \cup {LookupHostResult(a, NilErr) :
          a \in SeqsUpTo({"1.1.1.1", "::1"}, MaxAddrs) \ {<<>>}}

\* what the underlying dial of one address ends with
DialOutcomes ==
  {[ok |-> TRUE, err |-> NilErr],
   [ok |-> FALSE, err |-> <<"handshake timeout">>],
   [ok |-> FALSE, err |-> <<"sendto: invalid argument">>]}

\* the session a successful dial of target returns
SessionTo(target) == <<"session to", target.host>>

quicDialerResolverApplyServerNameInPlace(cfg, host) ==
  LET set == IF cfg.ServerName = "" THEN [cfg EXCEPT !.ServerName = host]
                                    ELSE cfg
  IN [caller |-> set, down |-> set]

\* quicDialerResolver: the config handed down is a clone of the caller's
\* with ServerName set to the host when the caller left it empty
quicDialerResolverApplyServerName(cfg, host) ==
  [caller |-> cfg,
   down |-> IF cfg.ServerName = "" THEN [cfg EXCEPT !.ServerName = host]
                                   ELSE cfg]

\* the ALPN list quicDialerQUICGo takes for a destination port
DefaultNextProtos(port) ==
  IF port = 443 THEN <<"h3">>
  ELSE IF port = 8853 THEN <<"dq">>
  ELSE <<>>

\* quicDialerQUICGo: the config given to the handshake is a clone of the
\* caller's with the default root CAs and the port's ALPN list where the
\* caller left them unset
quicDialerQUICGoApplyTLSDefaults(cfg, port) ==
  [caller |-> cfg,
   down |-> [cfg EXCEPT
               !.RootCAs = IF @ = "nil" THEN "defaultCertPool" ELSE @,
               !.NextProtos = IF @ = <<>> THEN DefaultNextProtos(port) ELSE @]]

quicDialerResolverFirstError(errs) ==
  IF errs = <<>> THEN NilErr ELSE errs[1]

\* quicDialerResolver: the error returned when no attempt succeeded
quicDialerResolverFailure(errs) ==
  IF errs = <<>> THEN NilErr ELSE errs[Len(errs)]

quicDialerResolverAsksResolverAlways(host) == TRUE

\* d.lookupHost calls the resolver unless the host parses as an IP address
quicDialerResolverAsksResolver(host) == ~ParsesAsIP(host)

\* DialContext of the resolver-backed dialer is called: the address is split
quicDialContext(a, cfg, res) ==
  /\ qpc = "idle"
  /\ qAddress' = a
  /\ qResolver' = res
  /\ qGiven' = cfg
  /\ qCallerCfg' = cfg
  /\ IF SplitHostPort(a).err # NilErr
       THEN /\ qRet' = DialResult("nil", SplitHostPort(a).err)
            /\ qpc' = "done"
       ELSE /\ qpc' = "lookup"
            /\ UNCHANGED qRet
  /\ UNCHANGED <<qLookup, qAddrs, qPassed, qLog, qErrs>>

quicLookupHostDialsAfterFailure(r) ==
  /\ qpc = "lookup"
  /\ LET host == SplitHostPort(qAddress).host
         got == IF ~quicDialerResolverAsksResolver(host)
                  THEN LookupHostResult(<<host>>, NilErr)
                ELSE IF qResolver = "null" THEN nullResolverLookupHost(host)
                ELSE r
         sni == quicDialerResolverApplyServerName(qCallerCfg, host)
     IN /\ qLookup' = IF ~quicDialerResolverAsksResolver(host) THEN qLookup
                      ELSE Append(qLookup, [host |-> host, ret |-> got])
        /\ qAddrs' = got.addrs
        /\ qCallerCfg' = sni.caller
        /\ qPassed' = sni.down
        /\ qpc' = "dial"
        /\ UNCHANGED qRet
  /\ UNCHANGED <<qAddress, qResolver, qGiven, qLog, qErrs>>

\* d.lookupHost: an IP address resolves to itself, any other host goes to
\* the resolver, which returns r; then the ServerName default
quicLookupHost(r) ==
  /\ qpc = "lookup"
  /\ LET host == SplitHostPort(qAddress).host
         got == IF ~quicDialerResolverAsksResolver(host)
                  THEN LookupHostResult(<<host>>, NilErr)
                ELSE IF qResolver = "null" THEN nullResolverLookupHost(host)
                ELSE r
         sni == quicDialerResolverApplyServerName(qCallerCfg, host)
     IN /\ qLookup' = IF ~quicDialerResolverAsksResolver(host) THEN qLookup
                      ELSE Append(qLookup, [host |-> host, ret |-> got])
        /\ IF got.err # NilErr
             THEN /\ qRet' = DialResult("nil", got.err)
                  /\ qpc' = "done"
                  /\ UNCHANGED <<qAddrs, qPassed, qCallerCfg>>
             ELSE /\ qAddrs' = got.addrs
                  /\ qCallerCfg' = sni.caller
                  /\ qPassed' = sni.down
                  /\ qpc' = "dial"
                  /\ UNCHANGED qRet
  /\ UNCHANGED <<qAddress, qResolver, qGiven, qLog, qErrs>>

\* one turn of the loop over the addresses: the underlying dialer is called
\* with the next address and ends with out
quicDial(out) ==
  /\ qpc = "dial"
  /\ Len(qLog) < Len(qAddrs)
  /\ LET port == SplitHostPort(qAddress).port
         target == JoinHostPort(qAddrs[Len(qLog) + 1], port)
         tls == quicDialerQUICGoApplyTLSDefaults(qPassed, port)
     IN /\ qPassed' = tls.caller
        /\ qLog' = Append(qLog, [target |-> target, cfg |-> tls.down,
                                 out |-> out])
        /\ IF out.ok
             THEN /\ qRet' = DialResult(SessionTo(target), NilErr)
                  /\ qpc' = "done"
                  /\ UNCHANGED qErrs
             ELSE /\ qErrs' = Append(qErrs, out.err)
                  /\ UNCHANGED <<qRet, qpc>>
  /\ UNCHANGED <<qAddress, qResolver, qGiven, qCallerCfg, qLookup, qAddrs>>

\* the loop is over and no attempt succeeded
quicDialFailure ==
  /\ qpc = "dial"
  /\ Len(qLog) = Len(qAddrs)
  /\ qRet' = DialResult("nil", quicDialerResolverFailure(qErrs))
  /\ qpc' = "done"
  /\ UNCHANGED <<qAddress, qResolver, qGiven, qCallerCfg, qLookup, qAddrs,
                 qPassed, qLog, qErrs>>

InitQUIC ==
  /\ qpc = "idle"
  /\ qAddress = NoPortAddr("")
  /\ qResolver = "null"
  /\ qGiven = NoTLSConfig
  /\ qCallerCfg = NoTLSConfig
  /\ qLookup = <<>>
  /\ qAddrs = <<>>
  /\ qPassed = NoTLSConfig
  /\ qLog = <<>>
  /\ qErrs = <<>>
  /\ qRet = DialResult("nil", NilErr)


(***************************************************************************)
(* The miekg codec called on its own: the decoding of a reply and the      *)
(* size of the padding option of a query.                                  *)
(***************************************************************************)
\* bound: the length in bytes of a query before the padding option is added
MaxQueryLen == 300

desiredBlockSize == 128

\* a uint as four 16-bit limbs, least significant first
ToUint(n) == <<n % 65536, n \div 65536, 0, 0>>

\* a - b on uint operands: the subtraction wraps around
RECURSIVE UintSubFrom(_, _, _, _)
UintSubFrom(a, b, i, borrow) ==
  IF i > Len(a) THEN <<>>
  ELSE LET d == a[i] - b[i] - borrow
       IN IF d < 0 THEN <<d + 65536>> \o UintSubFrom(a, b, i + 1, 1)
                   ELSE <<d>> \o UintSubFrom(a, b, i + 1, 0)
UintSub(a, b) == UintSubFrom(a, b, 1, 0)

\* a % m on a uint a and a small m
RECURSIVE UintRemFrom(_, _, _)
UintRemFrom(a, m, i) ==
  IF i > Len(a) THEN 0
  ELSE (UintRemFrom(a, m, i + 1) * 65536 + a[i]) % m
UintRem(a, m) == UintRemFrom(a, m, 1)

PaddingRemainderSigned(queryLen) ==
  LET d == desiredBlockSize - (queryLen + 4)
  IN IF d >= 0 THEN d % desiredBlockSize ELSE 0 - ((0 - d) % desiredBlockSize)

\* remainder := (desiredBlockSize - uint(query.Len()+4)) % desiredBlockSize
PaddingRemainder(queryLen) ==
  UintRem(UintSub(ToUint(desiredBlockSize), ToUint(queryLen + 4)),
          desiredBlockSize)

\* the replies DecodeLookupHostResponse is given: bytes a transport returned
ReplyData == {d \in TransportOutcomes : d.err = ErrNil}

NoDecode ==
  [called |-> FALSE, qtype |-> TypeA,
   data |-> [err |-> ErrNil, unpacks |-> FALSE, rcode |-> RcodeSuccess,
             answer |-> <<>>],
   ret |-> LookupHostResult(<<>>, ErrNil)]
NoEncode ==
  [called |-> FALSE, queryLen |-> 0, padding |-> FALSE, remainder |-> 0,
   packedLen |-> 0]

\* DecodeLookupHostResponse is called on a reply
codecDecode(qtype, data) ==
  /\ cdDecode' = [called |-> TRUE, qtype |-> qtype, data |-> data,
                  ret |-> DecodeLookupHostResponse(qtype, data)]
  /\ cdEncode' = NoEncode

\* EncodeLookupHostRequest is called for a query queryLen bytes long; with
\* padding the option header (4 bytes) and the padding bytes are added
codecEncode(queryLen, padding) ==
  /\ LET remainder == PaddingRemainder(queryLen)
     IN cdEncode' =
          [called |-> TRUE, queryLen |-> queryLen, padding |-> padding,
           remainder |-> IF padding THEN remainder ELSE 0,
           packedLen |-> IF padding THEN queryLen + 4 + remainder
                                    ELSE queryLen]
  /\ cdDecode' = NoDecode

InitCodec ==
  /\ cdDecode = NoDecode
  /\ cdEncode = NoEncode


(***************************************************************************)
(* mlablocate: Client.Query asks locate.measurementlab.net for a server.   *)
(***************************************************************************)
\* NewClient
NewClient(userAgent) ==
  [Hostname |-> "locate.measurementlab.net", Scheme |-> "https",
   UserAgent |-> userAgent]

\* the clients of the model: the one NewClient makes and one whose Hostname
\* field was overwritten with a string that is no host name
LocateClients ==
  {NewClient("miniooni/0.1.0-dev"),
   [NewClient("miniooni/0.1.0-dev") EXCEPT !.Hostname = "locate measurementlab net"]}
LocateTools == {"ndt", "neubot"}

\* Result; Result{} is the zero value
LocateResult(fqdn, site) == [FQDN |-> fqdn, Site |-> site]
ZeroResult == LocateResult("", "")
QueryReturn(result, err) == [result |-> result, err |-> err]

\* http.NewRequestWithContext: the URL is parsed again and a host with a
\* space in it is refused
NewRequestWithContext(method, url) ==
  IF url.Host = "locate measurementlab net"
    THEN [req |-> <<>>, err |-> <<"parse: invalid character in host name">>]
    ELSE [req |-> <<[method |-> method, url |-> url, headers |-> <<>>]>>,
          err |-> NilErr]

\* the bodies of the model: what the body decodes to as JSON
LocateBodies ==
  [json : {"syntax error", "null"}, fqdn : {""}, site : {""}]
  \cup [json : {"object", "site is a number"},
        fqdn : {"", "ndt-iupui-mlab1-mil01.measurement-lab.org"},
        site : {"", "mil01"}]

\* what HTTPClient.Do answers: an error, or a response with a status code and
\* a body that can be read to the end or not
LocateStatusCodes == {200, 204, 404, 500}
LocateAnswers ==
  [err : {<<"mocked error">>}, status : {0}, readErr : {NilErr},
   body : {[json |-> "null", fqdn |-> "", site |-> ""]}]
  \cup [err : {NilErr}, status : LocateStatusCodes,
        readErr : {<<"unexpected EOF">>},
        body : {[json |-> "null", fqdn |-> "", site |-> ""]}]
  \cup [err : {NilErr}, status : LocateStatusCodes, readErr : {NilErr},
        body : LocateBodies]

\* the %d of fmt.Errorf, for the status codes of the model
StatusText(status) ==
  CASE status = 200 -> "200"
    [] status = 204 -> "204"
    [] status = 404 -> "404"
    [] status = 500 -> "500"

\* json.Unmarshal(data, &result): the fields found are stored also when a
\* later field has the wrong type, which is reported as an error at the end
Unmarshal(body) ==
  CASE body.json = "syntax error" ->
         QueryReturn(ZeroResult, <<"invalid character">>)
    [] body.json = "null" -> QueryReturn(ZeroResult, NilErr)
    [] body.json = "site is a number" ->
         QueryReturn(LocateResult(body.fqdn, ""),
                     <<"json: cannot unmarshal number into Go struct field">>)
    [] body.json = "object" -> QueryReturn(LocateResult(body.fqdn, body.site), NilErr)

ClientQueryAcceptsEmptyFQDN(c, tool, answer) ==
  LET URL == [Scheme |-> c.Scheme, Host |-> c.Hostname, Path |-> tool]
      made == NewRequestWithContext("GET", URL)
      parsed == Unmarshal(answer.body)
  IN IF made.err # NilErr THEN QueryReturn(ZeroResult, made.err)
     ELSE IF answer.err # NilErr THEN QueryReturn(ZeroResult, answer.err)
     ELSE IF answer.status # 200
       THEN QueryReturn(ZeroResult, <<"mlablocate: non-200 status code",
                                      StatusText(answer.status)>>)
     ELSE IF answer.readErr # NilErr
       THEN QueryReturn(ZeroResult, answer.readErr)
     ELSE IF parsed.err # NilErr THEN QueryReturn(ZeroResult, parsed.err)
     ELSE QueryReturn(parsed.result, NilErr)

\* Client.Query: what it returns
ClientQuery(c, tool, answer) ==
  LET URL == [Scheme |-> c.Scheme, Host |-> c.Hostname, Path |-> tool]
      made == NewRequestWithContext("GET", URL)
      parsed == Unmarshal(answer.body)
  IN IF made.err # NilErr THEN QueryReturn(ZeroResult, made.err)
     ELSE IF answer.err # NilErr THEN QueryReturn(ZeroResult, answer.err)
     ELSE IF answer.status # 200
       THEN QueryReturn(ZeroResult, <<"mlablocate: non-200 status code",
                                      StatusText(answer.status)>>)
     ELSE IF answer.readErr # NilErr
       THEN QueryReturn(ZeroResult, answer.readErr)
     ELSE IF parsed.err # NilErr THEN QueryReturn(ZeroResult, parsed.err)
     ELSE IF parsed.result.FQDN = ""
       THEN QueryReturn(ZeroResult, <<"mlablocate: returned empty FQDN">>)
     ELSE QueryReturn(parsed.result, NilErr)

\* Client.Query: the requests given to HTTPClient.Do, with the User-Agent
ClientQuerySent(c, tool) ==
  LET URL == [Scheme |-> c.Scheme, Host |-> c.Hostname, Path |-> tool]
      made == NewRequestWithContext("GET", URL)
  IN IF made.err # NilErr THEN <<>>
     ELSE <<[made.req[1] EXCEPT !.headers = <<<<"User-Agent", c.UserAgent>>>>]>>

NoQuery ==
  [called |-> FALSE, client |-> NewClient("miniooni/0.1.0-dev"),
   tool |-> "ndt",
   answer |-> [err |-> <<"mocked error">>, status |-> 0, readErr |-> NilErr,
               body |-> [json |-> "null", fqdn |-> "", site |-> ""]],
   sent |-> <<>>, ret |-> QueryReturn(ZeroResult, NilErr)]

\* Query is called on client c for tool; the HTTP client answers answer
locateQuery(c, tool, answer) ==
  mlQuery' = [called |-> TRUE, client |-> c, tool |-> tool, answer |-> answer,
              sent |-> ClientQuerySent(c, tool),
              ret |-> ClientQuery(c, tool, answer)]

InitLocate == mlQuery = NoQuery


(***************************************************************************)
(* DNSOverHTTPSResolver: roundTrip posts the query to the server's URL.    *)
(***************************************************************************)
\* the resolvers of the model: URL and UserAgent; the second URL does not
\* parse (it lacks the protocol scheme)
DoHResolvers ==
  [URL : {"https://dns.google/dns-query", "://dns.google/dns-query"},
   UserAgent : {"", "miniooni/0.1.0-dev"}]

ErrParseURL == "parse: missing protocol scheme"
ErrDo == "mocked Do error"
ErrReadAll == "unexpected EOF"

\* http.NewRequestWithContext(ctx, "POST", r.URL, bytes.NewReader(data))
DoHNewRequest(url, data) ==
  IF url = "://dns.google/dns-query"
    THEN [req |-> <<>>, err |-> ErrParseURL]
    ELSE [req |-> <<[method |-> "POST", url |-> url, body |-> data,
                    headers |-> <<>>]>>,
          err |-> ErrNil]

\* what the HTTP client's Do answers: an error, or a response with a status
\* code, a content type and a body that ReadAll reads to the end or not
DoHAnswers ==
  [err : {ErrDo}, status : {0}, contentType : {""}, readErr : {ErrNil}]
  \cup [err : {ErrNil}, status : {200, 404, 500},
        contentType : {"application/dns-message", "text/html"},
        readErr : {ErrNil, ErrReadAll}]

\* roundTrip: the requests it gives to r.client().Do
DoHRequests(r, data) ==
  LET made == DoHNewRequest(r.URL, data)
      ua == IF r.UserAgent # "" THEN <<<<"user-agent", r.UserAgent>>>>
                                ELSE <<>>
  IN IF made.err # ErrNil THEN <<>>
     ELSE <<[made.req[1] EXCEPT
               !.headers = ua \o <<<<"content-type", "application/dns-message">>>>]>>

DoHRoundTripChecksContentType(r, data, answer) ==
  LET made == DoHNewRequest(r.URL, data)
  IN IF made.err # ErrNil THEN Result("nil", made.err)
     ELSE IF answer.err # ErrNil THEN Result("nil", answer.err)
     ELSE IF answer.status # 200 \/ answer.contentType # "application/dns-message"
       THEN Result("nil", ErrDNSServerTemporarilyMisbehaving)
     ELSE IF answer.readErr # ErrNil THEN Result("partial reply", answer.readErr)
     ELSE Result("reply", ErrNil)

\* roundTrip: what it returns; ioutil.ReadAll hands back what it has read
\* together with its error
DoHRoundTrip(r, data, answer) ==
  LET made == DoHNewRequest(r.URL, data)
  IN IF made.err # ErrNil THEN Result("nil", made.err)
     ELSE IF answer.err # ErrNil THEN Result("nil", answer.err)
     ELSE IF answer.status # 200
       THEN Result("nil", ErrDNSServerTemporarilyMisbehaving)
     ELSE IF answer.readErr # ErrNil THEN Result("partial reply", answer.readErr)
     ELSE Result("reply", ErrNil)

NoTrip ==
  [called |-> FALSE, r |-> [URL |-> "https://dns.google/dns-query", UserAgent |-> ""],
   query |-> Query(29),
   answer |-> [err |-> ErrDo, status |-> 0, contentType |-> "", readErr |-> ErrNil],
   sent |-> <<>>, ret |-> NoResult]

\* roundTrip is called on resolver r with a query; the HTTP client answers
dohRoundTrip(r, q, answer) ==
  /\ dohTrip' = [called |-> TRUE, r |-> r, query |-> q, answer |-> answer,
                 sent |-> DoHRequests(r, q),
                 ret |-> DoHRoundTrip(r, q, answer)]
  /\ UNCHANGED dohIdle

\* the methods of the underlying resolvers a DNSResolver may be given
MethodSet(kind) ==
  IF kind = "DNSOverHTTPSResolver" THEN {"LookupHost", "CloseIdleConnection"}
  ELSE IF kind = "DNSOverTLSResolver" THEN {"LookupHost", "CloseIdleConnections"}
  ELSE {"LookupHost"}

\* the interface dnsIdleConnectionsCloser
dnsIdleConnectionsCloser == {"CloseIdleConnections"}

\* the type assertion x.(iface) on a value of the given kind
TypeAsserts(kind, iface) == iface \subseteq MethodSet(kind)

\* the underlying resolvers of the model: the kind, OwnsClient, and whether
\* the HTTP client in use has a CloseIdleConnections method
UnderlyingResolvers ==
  [kind : {"DNSOverHTTPSResolver", "DNSOverTLSResolver", "net.Resolver"},
   OwnsClient : BOOLEAN, clientCloses : BOOLEAN]

\* what a call did: the methods run on the underlying resolver, and the
\* CloseIdleConnections calls made on the HTTP client
IdleCalls(onResolver, onClient) == [onResolver |-> onResolver, onClient |-> onClient]

\* DNSOverHTTPSResolver.CloseIdleConnection
DoHCloseIdleConnection(u) ==
  IdleCalls(<<"CloseIdleConnection">>,
            IF u.OwnsClient /\ u.clientCloses THEN 1 ELSE 0)

\* the method of that name is run on the underlying resolver
CallMethod(u, name) ==
  IF u.kind = "DNSOverHTTPSResolver" /\ name = "CloseIdleConnection"
    THEN DoHCloseIdleConnection(u)
    ELSE IdleCalls(<<name>>, 0)

\* DNSResolver.CloseIdleConnections: the underlying resolver is asked only
\* when it is a dnsIdleConnectionsCloser
DNSResolverCloseIdleConnections(u) ==
  IF TypeAsserts(u.kind, dnsIdleConnectionsCloser)
    THEN CallMethod(u, "CloseIdleConnections")
    ELSE IdleCalls(<<>>, 0)

NoIdle ==
  [via |-> "none",
   u |-> [kind |-> "net.Resolver", OwnsClient |-> FALSE, clientCloses |-> FALSE],
   calls |-> IdleCalls(<<>>, 0)]

\* CloseIdleConnections is called on a DNSResolver over u
dnsResolverCloseIdleConnections(u) ==
  /\ dohIdle' = [via |-> "DNSResolver", u |-> u,
                 calls |-> DNSResolverCloseIdleConnections(u)]
  /\ UNCHANGED dohTrip

\* CloseIdleConnection is called on the DNSOverHTTPSResolver u itself
dohCloseIdleConnection(u) ==
  /\ u.kind = "DNSOverHTTPSResolver"
  /\ dohIdle' = [via |-> "DNSOverHTTPSResolver", u |-> u,
                 calls |-> DoHCloseIdleConnection(u)]
  /\ UNCHANGED dohTrip

InitDoH == dohTrip = NoTrip /\ dohIdle = NoIdle


(***************************************************************************)
(* DNSOverTLSResolver: creates its dnsOverTCPTLSResolver on the first      *)
(* LookupHost and hands every call on to it.                               *)
(***************************************************************************)
\* bound: calls made on the wrapper in one behaviour
MaxTLSCalls == 3

\* the goroutines that call the wrapper concurrently
TLSCallers == 1..2

\* LookupHost, the critical section: under r.mu, r.reso is created when it
\* is nil; r.mu.Unlock()
overTLSLookupHost(g) ==
  /\ otPc[g] = "idle"
  /\ otCalls < MaxTLSCalls
  /\ otCalls' = otCalls + 1
  /\ otReso' = TRUE
  /\ otPc' = [otPc EXCEPT ![g] = "lookup"]
  /\ UNCHANGED otFwd

\* LookupHost, after the unlock: return r.reso.LookupHost(ctx, hostname)
overTLSLookupHostForward(g) ==
  /\ otPc[g] = "lookup"
  /\ otFwd' = Append(otFwd, "LookupHost")
  /\ otPc' = [otPc EXCEPT ![g] = "idle"]
  /\ UNCHANGED <<otReso, otCalls>>

\* CloseIdleConnections, the critical section: reso := r.reso under r.mu;
\* r.mu.Unlock(); with a nil reso the call returns
overTLSCloseIdleConnections(g) ==
  /\ otPc[g] = "idle"
  /\ otCalls < MaxTLSCalls
  /\ otCalls' = otCalls + 1
  /\ otPc' = [otPc EXCEPT ![g] = IF otReso THEN "close" ELSE "idle"]
  /\ UNCHANGED <<otReso, otFwd>>

\* CloseIdleConnections, after the unlock: reso.CloseIdleConnections()
overTLSCloseIdleForward(g) ==
  /\ otPc[g] = "close"
  /\ otFwd' = Append(otFwd, "CloseIdleConnections")
  /\ otPc' = [otPc EXCEPT ![g] = "idle"]
  /\ UNCHANGED <<otReso, otCalls>>

InitOverTLS ==
  /\ otReso = FALSE
  /\ otFwd = <<>>
  /\ otPc = [g \in TLSCallers |-> "idle"]
  /\ otCalls = 0


(***************************************************************************)
(* trySync on a connection nobody else touches: the length prefix of the   *)
(* query, the length prefix of the reply and the deadline.                 *)
(***************************************************************************)
\* the lengths of the queries given to trySync
FrameQueryLens == {0, 29, 255, 256, 258, MaxUint16, MaxUint16 + 1}
\* the header bytes the peer may send, and the length of the body it sends
FrameHeaderBytes == {0, 1, 255}
FrameBodyLens == {0, 1, 255, 256, 511, MaxUint16}

\* the conversion byte(n)
Byte(n) == n % 256

FrameHeaderLowByteFirst(n) == <<Byte(n), Byte(n \div 256)>>

\* trySync: buf := []byte{byte(len(query) >> 8)}; append(buf, byte(len(query)))
FrameHeader(n) == <<Byte(n \div 256), Byte(n)>>

\* trySync: length := int(header[0])<<8 | int(header[1])
ReplyLength(header) == header[1] * 256 + header[2]

NoBuf == [written |-> FALSE, header |-> <<0, 0>>, payload |-> 0]

\* trySync runs to the end with the outcome out after the deadline was set:
\* the deferred SetDeadline(time.Time{}) runs
frameReturn(out) ==
  /\ fret' = out
  /\ fdl' = Append(fdl, "zero")
  /\ fpc' = "done"

\* trySync is called: the length test, the defer and SetDeadline(now + 10s)
frameTrySync(n) ==
  /\ fpc = "idle"
  /\ fqlen' = n
  /\ IF n > MaxUint16
       THEN /\ fret' = Result("nil", ErrQueryTooLong)
            /\ fpc' = "done"
            /\ UNCHANGED fdl
       ELSE /\ fdl' = Append(fdl, "10s")
            /\ fpc' = "write"
            /\ UNCHANGED fret
  /\ UNCHANGED <<fbuf, fhdr, fread>>

\* dl.conn.Write(buf)
frameWrite(ok) ==
  /\ fpc = "write"
  /\ fbuf' = [written |-> TRUE, header |-> FrameHeader(fqlen),
              payload |-> fqlen]
  /\ IF ok THEN fpc' = "readhdr" /\ UNCHANGED <<fret, fdl>>
           ELSE frameReturn(Result("nil", ErrRedial))
  /\ UNCHANGED <<fqlen, fhdr, fread>>

\* io.ReadFull(dl.conn, header): the peer sent the two bytes h, or the read
\* failed
frameReadHeader(h, ok) ==
  /\ fpc = "readhdr"
  /\ IF ok THEN fhdr' = h /\ fpc' = "readbody" /\ UNCHANGED <<fret, fdl>>
           ELSE frameReturn(Result("nil", ErrRead)) /\ UNCHANGED fhdr
  /\ UNCHANGED <<fqlen, fbuf, fread>>

\* io.ReadFull(dl.conn, reply) with a buffer of ReplyLength(header) bytes;
\* the peer sends avail bytes before the read ends
frameReadBody(avail) ==
  /\ fpc = "readbody"
  /\ LET length == ReplyLength(fhdr)
     IN IF avail >= length
          THEN fread' = length /\ frameReturn(Result("reply", ErrNil))
          ELSE fread' = avail /\ frameReturn(Result("nil", ErrRead))
  /\ UNCHANGED <<fqlen, fbuf, fhdr>>

InitFrame ==
  /\ fpc = "idle"
  /\ fqlen = 0
  /\ fdl = <<>>
  /\ fbuf = NoBuf
  /\ fhdr = <<0, 0>>
  /\ fread = 0
  /\ fret = NoResult


(***************************************************************************)
(* Specifications: one per component.  A component that is not the one     *)
(* under study stays in its initial state.  Each next-state relation takes *)
(* the condition G under which its component may take a step.              *)
(***************************************************************************)
\* the layers take their inputs in the initial state; the other components
\* start from one state each
LayersAtRest == lHost = "example.com" /\ lInner = LookupHostResult(<<>>, NilErr)
                /\ lLayer = "none" /\ lOut = LookupHostResult(<<>>, NilErr)

Init ==
  /\ InitTCP /\ InitGeneric /\ InitSystem /\ LayersAtRest
  /\ InitWrap /\ InitSingleUse /\ InitQUIC /\ InitCodec
  /\ InitLocate
  /\ InitDoH
  /\ InitOverTLS
  /\ InitFrame

TCPStep(G) ==
  G /\ ~Crashed /\ UNCHANGED <<genVars, sysVars, layerVars, wrapVars, singleUseVars,
                 quicVars, codecVars, locateVars,
                 dohVars,
                 overTLSVars,
                 frameVars>>
GenericStep(G) ==
  G /\ UNCHANGED <<tcpVars, sysVars, layerVars, wrapVars, singleUseVars,
                 quicVars, codecVars, locateVars,
                 dohVars,
                 overTLSVars,
                 frameVars>>
SystemStep(G) ==
  G /\ UNCHANGED <<tcpVars, genVars, layerVars, wrapVars, singleUseVars,
                 quicVars, codecVars, locateVars,
                 dohVars,
                 overTLSVars,
                 frameVars>>
LayerStep(G) ==
  G /\ UNCHANGED <<tcpVars, genVars, sysVars, wrapVars, singleUseVars,
                 quicVars, codecVars, locateVars,
                 dohVars,
                 overTLSVars,
                 frameVars>>
WrapStep(G) ==
  G /\ UNCHANGED <<tcpVars, genVars, sysVars, layerVars, singleUseVars,
                 quicVars, codecVars, locateVars,
                 dohVars,
                 overTLSVars,
                 frameVars>>
SingleUseStep(G) ==
  G /\ UNCHANGED <<tcpVars, genVars, sysVars, layerVars, wrapVars, quicVars,
                 codecVars, locateVars,
                 dohVars,
                 overTLSVars,
                 frameVars>>
QUICStep(G) ==
  G /\ UNCHANGED <<tcpVars, genVars, sysVars, layerVars, wrapVars,
                 singleUseVars, codecVars, locateVars,
                 dohVars,
                 overTLSVars,
                 frameVars>>
CodecStep(G) ==
  G /\ UNCHANGED <<tcpVars, genVars, sysVars, layerVars, wrapVars,
                 singleUseVars, quicVars, locateVars,
                 dohVars,
                 overTLSVars,
                 frameVars>>
LocateStep(G) ==
  G /\ UNCHANGED <<tcpVars, genVars, sysVars, layerVars, wrapVars,
                 singleUseVars, quicVars, codecVars,
                 dohVars,
                 overTLSVars,
                 frameVars>>
DoHStep(G) ==
  G /\ UNCHANGED <<tcpVars, genVars, sysVars, layerVars, wrapVars,
                 singleUseVars, quicVars, codecVars, locateVars,
                 overTLSVars,
                 frameVars>>
OverTLSStep(G) ==
  G /\ UNCHANGED <<tcpVars, genVars, sysVars, layerVars, wrapVars,
                 singleUseVars, quicVars, codecVars, locateVars, dohVars,
                 frameVars>>
FrameStep(G) ==
  G /\ UNCHANGED <<tcpVars, genVars, sysVars, layerVars, wrapVars,
                 singleUseVars, quicVars, codecVars, locateVars, dohVars, overTLSVars>>

NextTCP(G) ==
  \/ \E c \in Callers, q \in Queries : TCPStep(G) /\ roundTripEnter(c, q)
  \/ \E c \in Callers : TCPStep(G) /\ roundTripLock(c)
  \/ \E c \in Callers : TCPStep(G) /\ roundTripDec(c)
  \/ \E c \in Callers : TCPStep(G) /\ rtriplockedSentinel(c)
  \/ \E c \in Callers : TCPStep(G) /\ rtriplockedSetNil(c)
  \/ \E c \in Callers : TCPStep(G) /\ maybeDial(c)
  \/ \E c \in Callers : TCPStep(G) /\ forceDialClose(c)
  \/ \E c \in Callers : TCPStep(G) /\ forceDialSetNil(c)
  \/ \E c \in Callers, ok \in BOOLEAN : TCPStep(G) /\ forceDialDial(c, ok)
  \/ \E c \in Callers : TCPStep(G) /\ try(c)
  \/ \E c \in Callers : TCPStep(G) /\ trySelectResult(c)
  \/ \E c \in Callers : TCPStep(G) /\ trySelectCtx(c)
  \/ \E c \in Callers : TCPStep(G) /\ roundTripUnlock(c)
  \/ \E c \in Callers : TCPStep(G) /\ ctxCancel(c)
  \/ \E t \in TaskIds : TCPStep(G) /\ trySyncStart(t)
  \/ \E t \in TaskIds : TCPStep(G) /\ trySyncSetDeadline(t)
  \/ \E t \in TaskIds, ok \in BOOLEAN : TCPStep(G) /\ trySyncWrite(t, ok)
  \/ \E t \in TaskIds, ok \in BOOLEAN, n \in TCPReplyLens :
       TCPStep(G) /\ trySyncReadHeader(t, ok, n)
  \/ \E t \in TaskIds, ok \in BOOLEAN : TCPStep(G) /\ trySyncReadBody(t, ok)
  \/ \E t \in TaskIds : TCPStep(G) /\ trySyncClearDeadline(t)
  \/ \E t \in TaskIds : TCPStep(G) /\ asyncTrySend(t)

NextGeneric(G) ==
  \/ GenericStep(G) /\ dnsResolverLookupHostStart
  \/ GenericStep(G) /\ dnsResolverLookupHostDone
  \/ GenericStep(G) /\ genericLookupHostStart
  \/ \E q \in QTypes, packs \in BOOLEAN, rt \in TransportOutcomes :
       GenericStep(G) /\ asyncLookupHost(q, packs, rt)
  \/ GenericStep(G) /\ genericLookupHostRecvA
  \/ GenericStep(G) /\ genericLookupHostGoAAAA
  \/ GenericStep(G) /\ genericLookupHostRecvAAAA

NextSystem(G) ==
  \/ \E parentDone \in BOOLEAN : SystemStep(G) /\ sysLookupHost(parentDone)
  \/ SystemStep(G) /\ sysCtxCancel
  \/ SystemStep(G) /\ sysCtxTimeout
  \/ \E k \in SysCalls : \E out \in SysLookupOutcomes(k) :
       SystemStep(G) /\ sysLookupTask(k, out)
  \/ SystemStep(G) /\ sysSelectCtx
  \/ SystemStep(G) /\ sysSelectAddrs
  \/ SystemStep(G) /\ sysSelectErr

NextLayers(G) ==
  \/ LayerStep(G) /\ layerDNSResolver
  \/ LayerStep(G) /\ layerLogger
  \/ LayerStep(G) /\ layerErrWrapper
  \/ LayerStep(G) /\ layerShortCircuit
  \/ LayerStep(G) /\ layerIDNA
  \/ LayerStep(G) /\ layerQUICErrWrapper

NextWrap(G) ==
  \/ \E h \in Hostnames, r \in ConcreteResolvers, b \in WrapBuilds :
       WrapStep(G) /\ wrapLookupHost(h, r, b)
  \/ \E h \in Hostnames, r \in ConcreteResolvers :
       WrapStep(G) /\ wrapLookupHTTPS(h, r)
  \/ \E h \in Hostnames, r \in ConcreteResolvers :
       WrapStep(G) /\ wrapLookupNS(h, r)
  \/ \E m \in Forwarded, r \in ConcreteResolvers, b \in WrapBuilds :
       WrapStep(G) /\ wrapForward(m, r, b)
  \/ WrapStep(G) /\ wrapEnter
  \/ \E r \in InnerResults \cup {nullResolverLookupHost("")} :
       WrapStep(G) /\ wrapConcrete(r)
  \/ WrapStep(G) /\ wrapReturn

NextSingleUse(G) ==
  \/ \E c \in DialCallers, a \in SingleUseAddresses :
       SingleUseStep(G) /\ singleUseDialContext(c, a)
  \/ \E c \in DialCallers : SingleUseStep(G) /\ singleUseCheck(c)
  \/ \E c \in DialCallers : SingleUseStep(G) /\ singleUseTake(c)
  \/ \E c \in DialCallers : SingleUseStep(G) /\ singleUseUnlock(c)

NextQUIC(G) ==
  \/ \E a \in QUICAddresses, cfg \in TLSConfigs, res \in {"null", "mock"} :
       QUICStep(G) /\ quicDialContext(a, cfg, res)
  \/ \E r \in MockResolverOutcomes : QUICStep(G) /\ quicLookupHost(r)
  \/ \E out \in DialOutcomes : QUICStep(G) /\ quicDial(out)
  \/ QUICStep(G) /\ quicDialFailure

NextCodec(G) ==
  \/ \E qtype \in QTypes \cup {TypeCNAME}, data \in ReplyData :
       CodecStep(G) /\ codecDecode(qtype, data)
  \/ \E queryLen \in 0..MaxQueryLen, padding \in BOOLEAN :
       CodecStep(G) /\ codecEncode(queryLen, padding)

NextLocate(G) ==
  \/ \E c \in LocateClients, tool \in LocateTools, answer \in LocateAnswers :
       LocateStep(G) /\ locateQuery(c, tool, answer)

NextDoH(G) ==
  \/ \E r \in DoHResolvers, q \in {Query(n) : n \in QueryLens},
        answer \in DoHAnswers :
       DoHStep(G) /\ dohRoundTrip(r, q, answer)
  \/ \E u \in UnderlyingResolvers :
       DoHStep(G) /\ dnsResolverCloseIdleConnections(u)
  \/ \E u \in UnderlyingResolvers : DoHStep(G) /\ dohCloseIdleConnection(u)

NextOverTLS(G) ==
  \/ \E g \in TLSCallers : OverTLSStep(G) /\ overTLSLookupHost(g)
  \/ \E g \in TLSCallers : OverTLSStep(G) /\ overTLSLookupHostForward(g)
  \/ \E g \in TLSCallers : OverTLSStep(G) /\ overTLSCloseIdleConnections(g)
  \/ \E g \in TLSCallers : OverTLSStep(G) /\ overTLSCloseIdleForward(g)

NextFrame(G) ==
  \/ \E n \in FrameQueryLens : FrameStep(G) /\ frameTrySync(n)
  \/ \E ok \in BOOLEAN : FrameStep(G) /\ frameWrite(ok)
  \/ \E h \in FrameHeaderBytes \X FrameHeaderBytes, ok \in BOOLEAN :
       FrameStep(G) /\ frameReadHeader(h, ok)
  \/ \E avail \in FrameBodyLens : FrameStep(G) /\ frameReadBody(avail)

\* the TCP/TLS resolver
Next == NextTCP(TRUE)
Spec == Init /\ [][Next]_vars

\* the dual-query resolver
NextG == NextGeneric(TRUE)
SpecGeneric == Init /\ [][NextG]_vars

\* the system resolver
NextS == NextSystem(TRUE)
SpecSystem == Init /\ [][NextS]_vars

\* every resolver variant: one of the dual-query resolver, the system
\* resolver or a single layer runs, the others stay at rest
InitR ==
  /\ InitTCP /\ InitGeneric /\ InitSystem /\ InitLayers
  /\ InitWrap /\ InitSingleUse /\ InitQUIC /\ InitCodec
  /\ InitLocate
  /\ InitDoH
  /\ InitOverTLS
  /\ InitFrame
NextR ==
  \/ NextGeneric(InitSystem /\ LayersAtRest)
  \/ NextSystem(InitGeneric /\ LayersAtRest)
  \/ NextLayers(InitGeneric /\ InitSystem)
SpecResolvers == InitR /\ [][NextR]_vars

\* the resolver WrapResolver builds, over any concrete resolver
NextW == NextWrap(TRUE)
SpecWrap == Init /\ [][NextW]_vars

\* the single-use QUIC dialer under concurrent callers
NextSU == NextSingleUse(TRUE)
SpecSingleUse == Init /\ [][NextSU]_vars

\* the resolver-backed QUIC dialer over the quic-go dialer
NextQ == NextQUIC(TRUE)
SpecQUIC == Init /\ [][NextQ]_vars

\* the codec called on its own
NextC == NextCodec(TRUE)
SpecCodec == Init /\ [][NextC]_vars

\* the mlablocate client
NextL == NextLocate(TRUE)
SpecLocate == Init /\ [][NextL]_vars

\* the HTTPS resolver's round trip on its own
NextD == NextDoH(TRUE)
SpecDoH == Init /\ [][NextD]_vars

\* the transports that may or may not try again: a round trip of the TCP/TLS
\* resolver or of the HTTPS resolver, one of them running
NextRetry ==
  \/ NextTCP(InitDoH)
  \/ NextDoH(InitTCP)
SpecRetry == Init /\ [][NextRetry]_vars

\* closing idle connections: the calls on the DNSOverTLSResolver wrapper, or
\* the calls it hands on to the TCP/TLS resolver
NextIdle ==
  \/ NextTCP(InitOverTLS)
  \/ NextOverTLS(InitTCP)
SpecIdle == Init /\ [][NextIdle]_vars

\* trySync on its own connection
NextF == NextFrame(TRUE)
SpecFrame == Init /\ [][NextF]_vars

\* the steps of caller c once it has entered roundTrip, but for r.mu.Lock()
CallerStep(c) ==
  TCPStep(TRUE) /\ \/ roundTripDec(c) \/ rtriplockedSentinel(c)
                   \/ rtriplockedSetNil(c) \/ maybeDial(c)
                   \/ forceDialClose(c) \/ forceDialSetNil(c)
                   \/ \E ok \in BOOLEAN : forceDialDial(c, ok)
                   \/ try(c) \/ trySelectResult(c) \/ trySelectCtx(c)
                   \/ roundTripUnlock(c)
\* the steps of the asyncTry goroutine in slot t
TaskStep(t) ==
  TCPStep(TRUE) /\ \/ trySyncStart(t) \/ trySyncSetDeadline(t)
                   \/ \E ok \in BOOLEAN : trySyncWrite(t, ok)
                   \/ \E ok \in BOOLEAN, n \in TCPReplyLens :
                        trySyncReadHeader(t, ok, n)
                   \/ \E ok \in BOOLEAN : trySyncReadBody(t, ok)
                   \/ trySyncClearDeadline(t) \/ asyncTrySend(t)
\* the TCP/TLS resolver under a fair scheduler: every goroutine that can
\* take a step takes one, the I/O of every task ends (by its deadline at the
\* latest), and a goroutine parked in r.mu.Lock() gets the mutex when it is
\* free again and again
SpecLive ==
  /\ Init /\ [][Next]_vars
  /\ \A c \in Callers : WF_vars(CallerStep(c))
  /\ \A c \in Callers : SF_vars(TCPStep(TRUE) /\ roundTripLock(c))
  /\ \A t \in TaskIds : WF_vars(TaskStep(t))

\* caller c is about to leave roundTrip with the error of its context: its
\* select found no result, and the goroutine try left behind has since sent
\* its result into ch and exited
TryAbandonedDelivered(c) ==
  /\ pc[c] = "unlock"
  /\ ret[c] = Result("nil", ErrCtx)
  /\ selSaw[c] = <<FALSE, TRUE>>
  /\ myTask[c] \in TaskIds
  /\ tasks[myTask[c]].pc = "free"
  /\ Len(trych[myTask[c]]) = 1

\* the TCP/TLS resolver has come to rest in its first round trip: the try
\* was abandoned, its goroutine has delivered and no other goroutine is left
TCPAtRest ==
  /\ calls = 1
  /\ \A t \in TaskIds : tasks[t].pc = "free"
  /\ \E c \in Callers : TryAbandonedDelivered(c)

\* the two selects that race a result against a context: try of the TCP/TLS
\* resolver and LookupHost of the system resolver.  The program uses one
\* after the other: the system resolver runs before the TCP/TLS resolver is
\* first used or while it is at rest, the TCP/TLS resolver before the system
\* resolver is first used.
NextSel ==
  \/ NextTCP(InitSystem)
  \/ NextSystem(InitTCP \/ TCPAtRest)
SpecSelect == Init /\ [][NextSel]_vars

(***************************************************************************)
(* Properties.                                                             *)
(***************************************************************************)
\* C1: on one dnsOverTCPTLSResolver at most one query's socket I/O
\* (set-deadline, write, read on conn) is in progress at any time.
\* Fails: try returns on ctx.Done() while its asyncTry goroutine is still in
\* trySync; the lock is released and the next round trip starts a second one.
C1_OneQueryIOAtATime == Cardinality(TasksInIO) <= 1

HasBoth(r, nilErr) == Len(r.addrs) > 0 /\ r.err # nilErr

\* C2 as claimed: no resolver variant ever returns a non-empty address list
\* together with a non-nil error, whatever its inner resolver returns.
C2_NeverBothAnyInner ==
  /\ gpc = "done" => ~HasBoth(gret, ErrNil)
  /\ spc = "returned" => ~HasBoth(sret, ErrNil)
  /\ lLayer # "none" => ~HasBoth(lOut, NilErr)

\* C2 as amended: dnsGenericResolver, resolverSystem, resolverLogger and
\* resolverErrWrapper never return a non-empty address list together with a
\* non-nil error, whatever the transport / inner resolver returns; DNSResolver,
\* resolverIDNA and resolverShortCircuitIPAddr return such a pair only when
\* their inner resolver returned one.
C2_NeverBothUnlessInnerDoes ==
  /\ gpc = "done" => ~HasBoth(gret, ErrNil)
  /\ spc = "returned" => ~HasBoth(sret, ErrNil)
  /\ lLayer \in Layers \ PassThroughLayers => ~HasBoth(lOut, NilErr)
  /\ lLayer \in PassThroughLayers /\ HasBoth(lOut, NilErr) => HasBoth(lInner, NilErr)

C2_Witness ==
  /\ lLayer = "resolverLogger"
  /\ HasBoth(lInner, NilErr)
  /\ lOut = LookupHostResult(<<>>, lInner.err)

\* C3: when both the A and the AAAA query fail, LookupHost returns nil
\* addresses and the error of the A query.
C3_BothFailReturnsAError ==
  (gpc = "done" /\ greply[TypeA].err # ErrNil /\ greply[TypeAAAA].err # ErrNil)
    => gret = LookupHostResult(<<>>, greply[TypeA].err)

C3_Witness ==
  /\ gpc = "done"
  /\ greply[TypeA].err \in TransportErrs
  /\ greply[TypeAAAA].err # ErrNil
  /\ greply[TypeAAAA].err # greply[TypeA].err
  /\ gret.err = greply[TypeA].err

\* C4: when exactly one query succeeds LookupHost returns nil error and
\* exactly that query's addresses; when both succeed, the A addresses
\* followed by the AAAA addresses.
C4_ReturnsSuccessfulAddrs ==
  gpc = "done" =>
    LET a == greply[TypeA]
        aaaa == greply[TypeAAAA]
    IN /\ (a.err = ErrNil /\ aaaa.err # ErrNil)
            => gret = LookupHostResult(a.addrs, ErrNil)
       /\ (a.err # ErrNil /\ aaaa.err = ErrNil)
            => gret = LookupHostResult(aaaa.addrs, ErrNil)
       /\ (a.err = ErrNil /\ aaaa.err = ErrNil)
            => gret = LookupHostResult(a.addrs \o aaaa.addrs, ErrNil)

C4_Witness ==
  /\ gpc = "done"
  /\ greply[TypeA].err = ErrNil
  /\ Len(greply[TypeA].addrs) = 2
  /\ greply[TypeAAAA].err = ErrNil
  /\ gret.addrs = greply[TypeA].addrs \o greply[TypeAAAA].addrs

GTaskAlive(q) == gtask[q] \in {"running", "sending"}

\* C5 as claimed: the AAAA task is started without waiting for the result
\* of the A task, so while the A task is alive the AAAA task has been
\* launched too.
\* Fails: LookupHost receives the result of the A task before it starts the
\* AAAA task; the two queries the specification calls parallel run one
\* after the other.
C5_AAAALaunchedWithA == GTaskAlive(TypeA) => gtask[TypeAAAA] # "idle"

\* C6: one round trip makes at most two tries and at most two dials; the
\* second try happens only after the first one failed with the redial hint,
\* on a fresh connection dialed after the old one was closed, and its
\* outcome, whatever it is, is what the round trip returns.
C6_RetryExactlyOnce ==
  \A c \in Callers :
    /\ tries[c] <= 2
    /\ dials[c] <= 2
    /\ tries[c] = 2 =>
         /\ Len(tryOut[c]) >= 1
         /\ IsRedialHint(tryOut[c][1].out.err)
         /\ tryOut[c][1].conn \in closed
         /\ conn \notin {NoConn, tryOut[c][1].conn}
    /\ (pc[c] = "unlock" /\ tries[c] = 2) => ret[c] = tryOut[c][2].out
    /\ (pc[c] = "unlock" /\ tries[c] = 1 /\ IsRedialHint(tryOut[c][1].out.err))
         => ret[c] = Result("nil", ErrDial)

C6_Witness ==
  \E c \in Callers :
    /\ pc[c] = "unlock"
    /\ tries[c] = 2
    /\ dials[c] = 2
    /\ ret[c].err = ErrRedial

\* the callers parked in r.mu.Lock()
Waiting == {c \in Callers : pc[c] = "lock"}

\* C7: CloseIdleConnections, at the moment it holds the lock, closes conn
\* and then sets it to nil when conn is non-nil and no caller is waiting for
\* the lock; with one or more waiting callers (or no conn) it changes nothing.
C7_CloseIdleOnlyWithoutWaiters ==
  [][\A c \in Callers :
       /\ (pc[c] = "rtrip" /\ query[c].isNil /\ pc'[c] # pc[c]) =>
            IF Waiting = {} /\ conn # NoConn
              THEN /\ closed' = closed \cup {conn}
                   /\ pc'[c] = "setnil"
              ELSE /\ conn' = conn /\ closed' = closed
                   /\ pc'[c] = "unlock"
       /\ (pc[c] = "setnil" /\ query[c].isNil /\ pc'[c] # pc[c]) =>
            /\ conn \in closed
            /\ conn' = NoConn /\ closed' = closed
            /\ pc'[c] = "unlock"]_vars

C7_Witness ==
  \E c \in Callers :
    /\ pc[c] = "unlock"
    /\ idleClose[c] = "closed"
    /\ conn = NoConn
    /\ closed # {}

\* C8: CloseIdleConnections never closes the connection while the socket
\* I/O of some query on that connection is still in progress.
\* Fails for the reason C1 fails: the I/O of a canceled caller goes on in the
\* background after the lock is released.
C8_NoIdleCloseDuringIO ==
  [][\A c \in Callers :
       (pc[c] = "rtrip" /\ query[c].isNil /\ closed' # closed) =>
         ~\E t \in TasksInIO : tasks[t].dconn = conn]_vars

\* C9: when the context fires while the lookup has not delivered a result,
\* resolverSystem.LookupHost returns (nil, ctx.Err()); the lookup goroutine
\* is left behind and what it delivers later reaches no caller: a call only
\* ever returns addresses looked up for that very call.
C9_CtxFirstDiscardsLookup ==
  spc = "returned" =>
    /\ (ssaw.ctx /\ ~ssaw.addrs /\ ~ssaw.err) =>
         /\ sret.addrs = <<>>
         /\ sret.err \in {ErrCanceled, ErrDeadlineExceeded}
         /\ sret.err = CtxErr(sctx)
    /\ \A i \in 1..Len(sret.addrs) : sret.addrs[i][2] = scall

\* the call has returned on its deadline with both channels empty, and the
\* goroutine it left behind has delivered its addresses afterwards
C9_Witness ==
  /\ spc = "returned"
  /\ ssaw.ctx /\ ~ssaw.addrs /\ ~ssaw.err
  /\ sret = LookupHostResult(<<>>, ErrDeadlineExceeded)
  /\ stask[scall] = "exited"
  /\ addrsch[scall] # <<>>

LastTry(c) == tryOut[c][Len(tryOut[c])].out

\* C10 as claimed: whenever the context is done at the moment of the select,
\* the call returns the context error, also when a result is available.
C10_CtxAlwaysWins ==
  /\ \A c \in Callers :
       (Len(tryOut[c]) > 0 /\ selSaw[c][2]) => LastTry(c) = Result("nil", ErrCtx)
  /\ (spc = "returned" /\ ssaw.ctx) => sret = LookupHostResult(<<>>, CtxErr(sctx))

\* C10 as amended: when the context is done and no result is available at
\* the moment of the select, the call returns the context error; when a
\* result is available too, the select returns either of them; try returns
\* the result of the I/O when only that is available.
C10_CtxWinsWhenAlone ==
  /\ \A c \in Callers :
       Len(tryOut[c]) > 0 =>
         /\ selSaw[c] # <<FALSE, FALSE>>
         /\ selSaw[c] = <<FALSE, TRUE>> => LastTry(c) = Result("nil", ErrCtx)
         /\ selSaw[c] = <<TRUE, FALSE>> => LastTry(c).err # ErrCtx
  /\ spc = "returned" =>
       /\ ssaw.ctx \/ ssaw.addrs \/ ssaw.err
       /\ (ssaw.ctx /\ ~ssaw.addrs /\ ~ssaw.err)
            => sret = LookupHostResult(<<>>, CtxErr(sctx))

C10_Witness ==
  \E c \in Callers :
    /\ Len(tryOut[c]) > 0
    /\ selSaw[c] = <<TRUE, TRUE>>
    /\ LastTry(c).err = ErrNil

\* C11: for every hostname s that parses as a literal IP address,
\* LookupHost on the resolver built by WrapResolver or NewResolverSystem
\* returns exactly [s] with a nil error and the concrete resolver is never
\* invoked to resolve: the call ends in the short-circuit layer, the layer
\* below it and the concrete resolver are not entered.  All that reaches the
\* concrete resolver is the request for its fixed network and address
\* strings, which only the logger of WrapResolver makes, for its prefix.
C11_IPLiteralShortCircuits ==
  (whost # <<>> /\ ParsesAsIP(whost[1])) =>
    /\ wpc # "concrete"
    /\ \A i \in 1..Len(wtrace) :
         wtrace[i] \notin {"resolverErrWrapper", "concrete"}
    /\ wconc = NoWrapValue
    /\ wmeta \in {<<>>, resolverLoggerPrefixCalls(wbuild)}
    /\ wpc = "done" => wval = LookupHostResult(<<whost[1]>>, NilErr)

\* the lookup of an IPv6 literal on the resolver of WrapResolver has
\* returned from the short-circuit layer
C11_Witness ==
  /\ wpc = "done"
  /\ wbuild = "WrapResolver"
  /\ whost[1] = "::1"
  /\ wval = LookupHostResult(<<"::1">>, NilErr)
  /\ wtrace = <<"resolverIDNA", "resolverLogger", "resolverShortCircuitIPAddr">>
  /\ wmeta = <<"Network", "Address">>

\* the wrappers the error-wrapping layer has put around an error
WrapCount(err) ==
  Cardinality({i \in 1..Len(err) : err[i] = "ErrWrapper:resolve"})

\* C12 as claimed: every non-nil error LookupHost of the chain returns is an
\* operation-tagged wrapper with operation "resolve", wrapped exactly once,
\* for every hostname, those that fail the IDNA conversion included.
C12_EveryErrorWrappedOnce ==
  (wpc = "done" /\ wval.err # NilErr) =>
    /\ Head(wval.err) = "ErrWrapper:resolve"
    /\ WrapCount(wval.err) = 1

\* C12 as amended: an error of the concrete resolver comes back wrapped
\* exactly once, by the error-wrapping layer, with operation "resolve"; the
\* error of a failed IDNA conversion comes back as it is, wrapped by no
\* layer, and no layer below resolverIDNA has run.
C12_ConcreteErrorsWrappedOnce ==
  (wpc = "done" /\ wval.err # NilErr) =>
    IF ToASCII(whost[1]).ok
      THEN /\ wconc.err # NilErr
           /\ wval.err = WrapErr("ErrWrapper:resolve", wconc.err)
           /\ WrapCount(wval.err) = 1
      ELSE /\ wval.err = ErrIDNA
           /\ WrapCount(wval.err) = 0
           /\ wtrace = <<"resolverIDNA">>

C12_Witness ==
  /\ wpc = "done"
  /\ wconc.err = <<"no such host">>
  /\ wval = LookupHostResult(<<>>, <<"ErrWrapper:resolve", "no such host">>)

\* the order of the layers as the claim gives it
WrapOrder ==
  <<"resolverIDNA", "resolverLogger", "resolverShortCircuitIPAddr",
    "resolverErrWrapper", "concrete">>

\* C13: a LookupHost call passes through IDNA, then logging, then the IP
\* short circuit, then error wrapping, then the concrete resolver; a layer is
\* entered only after every layer before it has been entered and has
\* delegated, and what it gets is the ASCII form IDNA made of the raw input.
C13_LayersEnteredInOrder ==
  /\ Len(wtrace) <= Len(WrapOrder)
  /\ \A i \in 1..Len(wtrace) : wtrace[i] = WrapOrder[i]
  /\ Len(wtrace) <= Len(whost) /\ Len(whost) <= Len(wtrace) + 1
  /\ \A i \in 2..Len(whost) : whost[i] = ToASCII(whost[1]).host

C13_Witness ==
  /\ wtrace = WrapOrder
  /\ whost[1] = "b<U+00FC>cher.example"
  /\ whost[5] = "xn--bcher-kva.example"

\* the calls that returned a session
SingleUseWinners == {i \in 1..Len(suLog) : suLog[i].ret.sess # "nil"}

\* C14: over any sequence and interleaving of DialContext calls with any
\* arguments, exactly one call, the first, returns the wrapped session with a
\* nil error; every other call returns a nil session with ErrNoConnReuse; an
\* exhausted dialer never gives the session again.
C14_SingleUseExactlyOnce ==
  /\ Cardinality(SingleUseWinners) <= 1
  /\ \A i \in 1..Len(suLog) :
       suLog[i].ret = IF i = 1 THEN DialResult("sess", NilErr)
                               ELSE DialResult("nil", ErrNoConnReuse)
  /\ suLog # <<>> => suSess = "nil"

C14_Witness ==
  /\ Len(suLog) = 3
  /\ suLog[1].ret = DialResult("sess", NilErr)
  /\ suLog[2].ret = DialResult("nil", ErrNoConnReuse)
  /\ suLog[2].caller # suLog[1].caller
  /\ suLog[2].arg # suLog[1].arg
  /\ suLog[3].ret = DialResult("nil", ErrNoConnReuse)

(***************************************************************************)
(* C15: DialContext of the QUIC dialer layers leaves the TLS config the    *)
(* caller supplied unchanged: the caller's object keeps the RootCAs,       *)
(* NextProtos and ServerName it had before the call, the config the        *)
(* resolver-backed dialer hands to the quic-go dialer differs from it only *)
(* by the defaulted ServerName and is not changed by the quic-go dialer,   *)
(* and the defaulted RootCAs, ALPN list and ServerName are all in the      *)
(* config given to the handshake.                                          *)
(***************************************************************************)
C15_CallerTLSConfigUnchanged ==
  LET host == SplitHostPort(qAddress).host
      port == SplitHostPort(qAddress).port
      named == IF qGiven.ServerName = "" THEN host ELSE qGiven.ServerName
  IN /\ qCallerCfg = qGiven
     /\ (qpc = "dial" \/ qLog # <<>>) =>
          qPassed = TLSConfig(qGiven.RootCAs, qGiven.NextProtos, named)
     /\ \A i \in 1..Len(qLog) :
          qLog[i].cfg =
            TLSConfig(IF qGiven.RootCAs = "nil" THEN "defaultCertPool"
                                                ELSE qGiven.RootCAs,
                      IF qGiven.NextProtos = <<>> THEN DefaultNextProtos(port)
                                                  ELSE qGiven.NextProtos,
                      named)

\* a dial of dns.google.com:8853 with an empty TLS config reached the
\* handshake with all three defaults applied
C15_Witness ==
  /\ qpc = "done"
  /\ qGiven = NoTLSConfig
  /\ qLog # <<>>
  /\ qLog[1].cfg = TLSConfig("defaultCertPool", <<"dq">>, "dns.google.com")

(***************************************************************************)
(* C16: when the host of the address is not an IP address and LookupHost   *)
(* of the injected resolver fails, DialContext returns a nil session and   *)
(* the resolver's error and never calls the underlying dialer; the null    *)
(* resolver always fails so, with ErrNoResolver.                           *)
(***************************************************************************)
C16_LookupFailureMeansNoDial ==
  LET split == SplitHostPort(qAddress)
  IN /\ (qpc = "done" /\ qLookup # <<>> /\ qLookup[1].ret.err # NilErr) =>
          /\ qRet = DialResult("nil", qLookup[1].ret.err)
          /\ qLog = <<>>
     /\ (qpc = "done" /\ split.err = NilErr /\ ~ParsesAsIP(split.host)
           /\ qResolver = "null") =>
          /\ Len(qLookup) = 1
          /\ qRet = DialResult("nil", ErrNoResolver)
          /\ qLog = <<>>

\* a dial of a hostname through the null resolver has returned
C16_Witness ==
  /\ qpc = "done"
  /\ qResolver = "null"
  /\ qLookup # <<>>
  /\ qLookup[1].host = "www.google.com"
  /\ qRet.err = ErrNoResolver

(***************************************************************************)
(* C17: the resolved addresses are attempted in the order the resolver     *)
(* returned them, no attempt follows a successful one, whose session is    *)
(* what DialContext returns; if every attempt fails DialContext returns a  *)
(* nil session and the error of the last attempt.                          *)
(***************************************************************************)
C17_AttemptsInOrderUntilSuccess ==
  LET port == SplitHostPort(qAddress).port
      n == Len(qLog)
  IN /\ n <= Len(qAddrs)
     /\ \A i \in 1..n : qLog[i].target = JoinHostPort(qAddrs[i], port)
     /\ \A i \in 1..(n - 1) : ~qLog[i].out.ok
     /\ (qpc = "done" /\ n > 0) =>
          IF qLog[n].out.ok
            THEN qRet = DialResult(SessionTo(qLog[n].target), NilErr)
            ELSE /\ n = Len(qAddrs)
                 /\ qRet = DialResult("nil", qLog[n].out.err)

\* two addresses were attempted and failed with different errors
C17_Witness ==
  /\ qpc = "done"
  /\ Len(qLog) = 2
  /\ qAddrs = <<"::1", "1.1.1.1">>
  /\ ~qLog[2].out.ok
  /\ qLog[1].out.err # qLog[2].out.err

(***************************************************************************)
(* C18: DecodeLookupHostResponse dispatches on the response code of every  *)
(* reply that unpacks, for both query types: name-error yields             *)
(* ErrDNSNoSuchHost whatever the answer section holds, server-failure      *)
(* yields ErrDNSServerTemporarilyMisbehaving, any other code except        *)
(* success yields ErrDNSServerMisbehaving, and only success goes on to the *)
(* addresses of the answer section.                                        *)
(***************************************************************************)
C18_DecodeDispatchesOnRcode ==
  (cdDecode.called /\ cdDecode.data.unpacks) =>
    LET rcode == cdDecode.data.rcode
        extracted == ExtractAddrs(cdDecode.qtype, cdDecode.data.answer)
    IN /\ rcode = RcodeNameError =>
            cdDecode.ret = LookupHostResult(<<>>, ErrDNSNoSuchHost)
       /\ rcode = RcodeServerFailure =>
            cdDecode.ret =
              LookupHostResult(<<>>, ErrDNSServerTemporarilyMisbehaving)
       /\ rcode \notin {RcodeNameError, RcodeServerFailure, RcodeSuccess} =>
            cdDecode.ret = LookupHostResult(<<>>, ErrDNSServerMisbehaving)
       /\ rcode = RcodeSuccess =>
            cdDecode.ret =
              IF extracted = <<>>
                THEN LookupHostResult(<<>>, ErrDNSNoAsnwerFromDNSServer)
                ELSE LookupHostResult(extracted, ErrNil)

\* a name-error reply to an A query whose answer section holds an A record
\* was decoded
C18_Witness ==
  /\ cdDecode.called
  /\ cdDecode.qtype = TypeA
  /\ cdDecode.data.rcode = RcodeNameError
  /\ cdDecode.data.answer = <<RR(TypeA, "10.0.0.1")>>
  /\ cdDecode.ret.err = ErrDNSNoSuchHost

(***************************************************************************)
(* C19: with padding requested, the size of the padding option is in       *)
(* 0..127 for every length L of the query, also when L + 4 is more than    *)
(* 128, and L + 4 + padding is a multiple of 128.                          *)
(***************************************************************************)
C19_PaddingFillsBlock ==
  (cdEncode.called /\ cdEncode.padding) =>
    /\ cdEncode.remainder \in 0..127
    /\ (cdEncode.queryLen + 4 + cdEncode.remainder) % 128 = 0
    /\ cdEncode.packedLen = cdEncode.queryLen + 4 + cdEncode.remainder

\* a query of 200 bytes was padded: 204 is more than one block
C19_Witness ==
  /\ cdEncode.called
  /\ cdEncode.padding
  /\ cdEncode.queryLen = 200
  /\ cdEncode.remainder = 52

(***************************************************************************)
(* C20: Query returns either a result with a non-empty FQDN and a nil      *)
(* error, or the zero Result and a non-nil error, never a result together  *)
(* with an error and never a success with an empty FQDN; a transport       *)
(* error, a status other than 200, a body that cannot be read, invalid     *)
(* JSON and an empty FQDN each give an error.                              *)
(***************************************************************************)
C20_QueryResultOrError ==
  mlQuery.called =>
    LET answer == mlQuery.answer
        got == mlQuery.ret
        failed == \/ mlQuery.sent = <<>>
                  \/ answer.err # NilErr
                  \/ answer.status # 200
                  \/ answer.readErr # NilErr
                  \/ answer.body.json \notin {"object", "null"}
                  \/ answer.body.fqdn = ""
    IN /\ \/ got.err = NilErr /\ got.result.FQDN # ""
          \/ got.err # NilErr /\ got.result = ZeroResult
       /\ failed => got.err # NilErr
       /\ ~failed =>
            got = QueryReturn(LocateResult(answer.body.fqdn, answer.body.site),
                              NilErr)

\* a 200 answer whose JSON object names a site and no FQDN got an error
C20_Witness ==
  /\ mlQuery.called
  /\ mlQuery.sent # <<>>
  /\ mlQuery.answer.err = NilErr
  /\ mlQuery.answer.status = 200
  /\ mlQuery.answer.readErr = NilErr
  /\ mlQuery.answer.body = [json |-> "object", fqdn |-> "", site |-> "mil01"]
  /\ mlQuery.ret = QueryReturn(ZeroResult, <<"mlablocate: returned empty FQDN">>)

(***************************************************************************)
(* C21: a failure of the A query neither prevents nor cancels the AAAA     *)
(* query: when LookupHost has returned, both worker tasks have run their   *)
(* query and handed their result over, so both replies were received and   *)
(* no task is left blocked on its result channel.                          *)
(***************************************************************************)
C21_BothQueriesAwaited ==
  gpc = "done" =>
    \A q \in QTypes : gtask[q] = "exited" /\ greply[q] = gres[q]

\* LookupHost returned after the A query failed and the AAAA query gave
\* an address
C21_Witness ==
  /\ gpc = "done"
  /\ greply[TypeA].err \in TransportErrs
  /\ greply[TypeAAAA] = LookupHostResult(<<"2606:2800:220:1::1">>, ErrNil)
  /\ gtask[TypeAAAA] = "exited"

\* a round trip of the TCP/TLS resolver whose failure is no write failure
\* is returned with that failure after one dial at most and one try at most
NoRetryOverTCP ==
  \A c \in Callers :
    /\ (pc[c] = "unlock" /\ ~query[c].isNil /\ tries[c] = 0) =>
         /\ dials[c] = 1
         /\ ret[c] = Result("nil", ErrDial)
    /\ (Len(tryOut[c]) >= 1
          /\ tryOut[c][1].out.err \in {ErrRead, ErrQueryTooLong, ErrCtx}) =>
         /\ pc[c] = "unlock"
         /\ tries[c] = 1
         /\ dials[c] <= 1
         /\ ret[c] = Result("nil", tryOut[c][1].out.err)
    /\ pc[c] = "redial" => IsRedialHint(tryOut[c][1].out.err)

(***************************************************************************)
(* C22 as claimed: in a TCP/TLS round trip a failure that is not a write   *)
(* failure (dial, read of header or body, query too long, context) goes    *)
(* back to the caller without redial and without a second try, and the     *)
(* HTTPS transport issues exactly one request in every round trip.         *)
(***************************************************************************)
C22_NoRetryExactlyOneRequest ==
  /\ NoRetryOverTCP
  /\ dohTrip.called => Len(dohTrip.sent) = 1

(***************************************************************************)
(* C22 as amended: the same for the TCP/TLS round trip; the HTTPS          *)
(* transport issues at most one request in a round trip: exactly one when  *)
(* the request can be built from the URL, none when it cannot, and then    *)
(* roundTrip returns the error of building it.                             *)
(***************************************************************************)
C22_NoRetryAtMostOneRequest ==
  /\ NoRetryOverTCP
  /\ dohTrip.called =>
       LET made == DoHNewRequest(dohTrip.r.URL, dohTrip.query)
       IN /\ Len(dohTrip.sent) <= 1
          /\ made.err = ErrNil => Len(dohTrip.sent) = 1
          /\ made.err # ErrNil =>
               dohTrip.sent = <<>> /\ dohTrip.ret = Result("nil", made.err)

\* a round trip whose only try failed reading is about to return that
\* failure, after one dial
C22_Witness ==
  \E c \in Callers :
    /\ pc[c] = "unlock"
    /\ tries[c] = 1
    /\ dials[c] = 1
    /\ tryOut[c][1].out.err = ErrRead
    /\ ret[c] = Result("nil", ErrRead)

(***************************************************************************)
(* C23: CloseIdleConnections completes without waiting for the round trip  *)
(* of another caller: a CloseIdleConnections call that has announced       *)
(* itself in r.users is never held up at r.mu.Lock() by a caller whose     *)
(* round trip is in flight under the lock.                                 *)
(* Fails: CloseIdleConnections is roundTrip with the nil sentinel and      *)
(* takes the same mutex the round trips hold from dial to return.          *)
(***************************************************************************)
C23_CloseIdleNeverWaits ==
  \A c \in Callers :
    (pc[c] = "lock" /\ query[c].isNil) =>
      \/ mu = NoOwner
      \/ query[mu].isNil

(***************************************************************************)
(* C24: CloseIdleConnections is idempotent.  With no other caller around,  *)
(* the call leaves the TCP/TLS resolver with a nil conn and dials nothing, *)
(* and on a resolver whose conn is nil already (never connected, or closed *)
(* by the call before) it changes nothing; on a DNSOverTLSResolver that    *)
(* has no resolver yet it does nothing at all.                             *)
(***************************************************************************)
C24_CloseIdleIdempotent ==
  [][/\ \A c \in Callers :
          (/\ pc[c] \in {"rtrip", "setnil"} /\ query[c].isNil
           /\ pc'[c] # pc[c]
           /\ \A d \in Callers \ {c} : pc[d] = "idle") =>
            /\ dialed' = dialed
            /\ conn = NoConn => closed' = closed /\ pc'[c] = "unlock"
            /\ pc'[c] = "unlock" =>
                 /\ conn' = NoConn
                 /\ ret'[c] = Result("nil", ErrNil)
     /\ (~otReso /\ ~otReso') => otFwd' = otFwd /\ otPc' = otPc
     /\ (otReso /\ otFwd' # otFwd) =>
          otFwd' \in {Append(otFwd, "LookupHost"),
                      Append(otFwd, "CloseIdleConnections")}]_vars

\* the third call on the resolver is a CloseIdleConnections that found
\* nothing to close: the one connection ever dialed is closed already
C24_Witness ==
  \E c \in Callers :
    /\ pc[c] = "unlock"
    /\ calls = 3
    /\ idleClose[c] = "skipped"
    /\ conn = NoConn
    /\ dialed = 1
    /\ closed = {1}

\* the asyncTry tasks that have not finished trySync yet
TasksInFlight == {t \in TaskIds : tasks[t].pc \in IOPositions \cup {"start", "setdl"}}

\* the asyncTry tasks whose try has returned on ctx.Done() without them
Abandoned(t) ==
  /\ tasks[t].pc # "free"
  /\ ~(pc[tasks[t].owner] = "select" /\ myTask[tasks[t].owner] = t)

(***************************************************************************)
(* C25 as claimed: when the context of a caller is canceled while the      *)
(* socket I/O of its round trip is in flight, try returns the context      *)
(* error at once (the select takes the ctx.Done() case) and the I/O is not *)
(* interrupted: the cancellation and the return leave the background task, *)
(* the connection and its deadline as they are, and from then on, until    *)
(* trySync has returned, the task goes on by its own steps only, on a      *)
(* connection that nobody closes, sets to nil or replaces, and it never    *)
(* ends in a panic.                                                        *)
(* Fails in its last part: the cancel and the return do leave the I/O      *)
(* alone, but the lock is released with the task still running, and the    *)
(* next CloseIdleConnections or redial closes the connection under it.     *)
(***************************************************************************)
C25_CancelLeavesIORunning ==
  [][\A c \in Callers :
       /\ (~ctxDone[c] /\ ctxDone'[c]) =>
            /\ tasks' = tasks /\ conn' = conn /\ closed' = closed
            /\ deadlined' = deadlined
       /\ (pc[c] = "select" /\ ctxDone[c]) => ENABLED trySelectCtx(c)
       /\ (pc[c] = "select" /\ pc'[c] # "select"
             /\ myTask[c] \in TasksInFlight) =>
            /\ ctxDone[c]
            /\ pc'[c] = "unlock"
            /\ ret'[c] = Result("nil", ErrCtx)
            /\ tasks' = tasks /\ conn' = conn /\ closed' = closed
            /\ deadlined' = deadlined
       /\ \A t \in TasksInIO :
            (tasks[t].owner = c /\ pc'[c] # pc[c]) => tasks'[t] = tasks[t]
       /\ \A t \in TasksInFlight :
            (tasks[t].owner = c /\ Abandoned(t)) =>
              /\ conn' = conn /\ closed' = closed
              /\ tasks'[t].pc # "panic"]_vars

\* how many times the layer was entered
RECURSIVE TimesEntered(_, _)
TimesEntered(layer, trace) ==
  IF trace = <<>> THEN 0
  ELSE (IF Head(trace) = layer THEN 1 ELSE 0) + TimesEntered(layer, Tail(trace))

(***************************************************************************)
(* C26: when resolverIDNA cannot convert the hostname to ASCII it returns  *)
(* nil addresses and the conversion error and never calls its inner        *)
(* resolver; otherwise it calls the inner resolver exactly once, with the  *)
(* converted hostname.  resolverIDNA is the outermost layer of the chain;  *)
(* its inner resolver is the layer below it.                               *)
(***************************************************************************)
C26_IDNAFailsBeforeInner ==
  (wtrace # <<>> /\ wtrace[1] = "resolverIDNA") =>
    LET h == whost[1]
        inner == WrapResolver[2]
    IN /\ ~ToASCII(h).ok =>
            /\ wpc = "done"
            /\ wval = LookupHostResult(<<>>, ErrIDNA)
            /\ Len(whost) = 1
            /\ TimesEntered(inner, wtrace) = 0
       /\ ToASCII(h).ok =>
            /\ Len(whost) >= 2
            /\ whost[2] = ToASCII(h).host
            /\ TimesEntered(inner, wtrace) <= 1
            /\ wpc \in {"up", "done"} => TimesEntered(inner, wtrace) = 1
       /\ TimesEntered("resolverIDNA", wtrace) = 1

\* the lookup of a name with a label that is no valid punycode has returned
C26_Witness ==
  /\ wpc = "done"
  /\ whost = <<"xn--0000h">>
  /\ wtrace = <<"resolverIDNA">>
  /\ wval.err = ErrIDNA

\* the position of the first entry of the layer in the trace (0: none)
RECURSIVE EntryOf(_, _, _)
EntryOf(layer, trace, i) ==
  IF i > Len(trace) THEN 0
  ELSE IF trace[i] = layer THEN i ELSE EntryOf(layer, trace, i + 1)

(***************************************************************************)
(* C27: resolverLogger.LookupHost emits exactly one start line before it   *)
(* delegates and exactly one completion line after the inner call has      *)
(* returned, calls LookupHost of the inner resolver exactly once with the  *)
(* hostname it was given, and returns what the inner call returned: the    *)
(* same addresses on success, the same error on failure.  Both lines carry *)
(* the same prefix: the hostname alone in the logger NewResolverSystem     *)
(* builds, the hostname with the network and address of the resolver in    *)
(* the logger of WrapResolver, which asks for the two once before the      *)
(* start line.  Checked on every step of a LookupHost call.                *)
(***************************************************************************)
C27_LoggerOnlyLogs ==
  [][(wpc # "other" /\ wpc' # "other") =>
     LET k == EntryOf("resolverLogger", WrapResolver, 1)
         entered == TimesEntered("resolverLogger", wtrace) = 1
         inner == WrapResolver[k + 1]
         returned == entered /\ (wpc = "done" \/ (wpc = "up" /\ wdepth < k))
         start == LogLine(LogPrefix("resolve[A,AAAA]", whost[k], wres, wbuild),
                          FALSE, <<>>, NilErr)
     IN /\ TimesEntered("resolverLogger", wtrace) <= 1
        /\ ~entered => wlog = <<>> /\ wmeta = <<>>
        /\ entered => wmeta = resolverLoggerPrefixCalls(wbuild)
        /\ (entered /\ ~returned) =>
             /\ wlog = <<start>>
             /\ Len(whost) > k /\ whost[k + 1] = whost[k]
             /\ TimesEntered(inner, wtrace) <= 1
        /\ returned =>
             /\ Len(wlog) = 2
             /\ wlog[1] = start
             /\ wlog[2].done /\ wlog[2].prefix = wlog[1].prefix
             /\ whost[k + 1] = whost[k]
             /\ TimesEntered(inner, wtrace) = 1
        /\ (wpc = "up" /\ wdepth = k) =>
             /\ wval.err = NilErr => wval' = wval
             /\ wval.err # NilErr => wval' = LookupHostResult(<<>>, wval.err)
             /\ Len(wlog') = 2
             /\ wlog'[2].err = wval.err
             /\ wval.err = NilErr => wlog'[2].addrs = wval.addrs]_vars

\* the logger NewResolverSystem builds has logged the failure of the inner
\* call under the prefix of the start line, and the lookup has returned
C27_Witness ==
  /\ wpc = "done"
  /\ wbuild = "NewResolverSystem"
  /\ Len(wlog) = 2
  /\ wlog[1].prefix = <<"resolve", "example.com">>
  /\ wlog[2].err = <<"ErrWrapper:resolve", "no such host">>
  /\ wval.err = wlog[2].err

\* the tag of the wrapper each error-wrapping layer builds
WrapperTag ==
  [resolverErrWrapper |-> "ErrWrapper:resolve",
   quicDialerErrWrapper |-> "ErrWrapper:quic_handshake",
   DNSResolver |-> "ErrLookupHost"]

\* out is the inner success handed on untouched, or the inner error inside
\* a wrapper of the layer's fixed tag, from which Unwrap yields that error
WrapsOrPasses(layer, inner, out) ==
  IF inner.err = NilErr THEN out = inner
  ELSE /\ Len(out.err) = Len(inner.err) + 1
       /\ Head(out.err) = WrapperTag[layer]
       /\ Tail(out.err) = inner.err

\* what the underlying resolvers of this repository hand to an
\* error-wrapping layer: dnsGenericResolver.LookupHost returns (nil, err) or
\* (addrs, nil), never addresses next to an error
UnderlyingReturns(inner) == inner.addrs = <<>> \/ inner.err = NilErr

\* C28: each error-wrapping layer returns the inner success value untouched
\* with nil error, and on inner failure a wrapper of its fixed tag whose
\* Unwrap yields exactly the inner error, next to a nil result.  The nil
\* result is stated for what the underlying resolvers of the repository
\* return, which is never addresses together with an error.
C28_FailureGivesNilResult ==
  lLayer \in DOMAIN WrapperTag =>
    /\ WrapsOrPasses(lLayer, lInner, lOut)
    /\ (lInner.err # NilErr /\ UnderlyingReturns(lInner)) => lOut.addrs = <<>>

\* DNSResolver has wrapped the error of an underlying resolver and has
\* returned it next to a nil result
C28_Witness ==
  /\ lLayer = "DNSResolver"
  /\ lInner = LookupHostResult(<<>>, <<"no such host">>)
  /\ lOut = LookupHostResult(<<>>, <<"ErrLookupHost", "no such host">>)

\* C29: when the host of the dialed address parses as an IP address, the
\* lookupHost of the resolver-backed dialer returns that one address and
\* the injected resolver is never called.
C29_IPHostSkipsResolver ==
  LET split == SplitHostPort(qAddress)
  IN (qpc # "idle" /\ split.err = NilErr /\ ParsesAsIP(split.host)) =>
       /\ qLookup = <<>>
       /\ qpc \in {"dial", "done"} => qAddrs = <<split.host>>

\* a dial of an IP address through a dialer with a working resolver is over:
\* the one attempt went to that address
C29_Witness ==
  /\ qpc = "done"
  /\ qResolver = "mock"
  /\ ParsesAsIP(SplitHostPort(qAddress).host)
  /\ Len(qLog) = 1
  /\ qLog[1].target = qAddress
  /\ qLookup = <<>>

(***************************************************************************)
(* C30: after a success response code DecodeLookupHostResponse returns     *)
(* exactly the addresses of the answer records whose type is the requested *)
(* type, A or AAAA, in the order of the answer section, and skips every    *)
(* other record; when no record matches, which is always so for any other  *)
(* requested type, it returns nil addresses and                            *)
(* ErrDNSNoAsnwerFromDNSServer, never an empty list with a nil error.      *)
(***************************************************************************)
C30_OnlyMatchingRecordsInOrder ==
  (cdDecode.called /\ cdDecode.data.unpacks
     /\ cdDecode.data.rcode = RcodeSuccess) =>
    LET qtype == cdDecode.qtype
        matching ==
          SelectSeq(cdDecode.data.answer,
                    LAMBDA rr : qtype \in {TypeA, TypeAAAA} /\ rr.type = qtype)
        got == cdDecode.ret
    IN /\ ~(got.addrs = <<>> /\ got.err = ErrNil)
       /\ IF Len(matching) = 0
            THEN got = LookupHostResult(<<>>, ErrDNSNoAsnwerFromDNSServer)
            ELSE /\ got.err = ErrNil
                 /\ Len(got.addrs) = Len(matching)
                 /\ \A i \in 1..Len(matching) : got.addrs[i] = matching[i].ip

\* an AAAA query was answered with an A record followed by an AAAA record:
\* only the address of the second one was returned
C30_Witness ==
  /\ cdDecode.called
  /\ cdDecode.qtype = TypeAAAA
  /\ cdDecode.data.rcode = RcodeSuccess
  /\ cdDecode.data.answer = <<RR(TypeA, "10.0.0.1"),
                              RR(TypeAAAA, "2606:2800:220:1::1")>>
  /\ cdDecode.ret = LookupHostResult(<<"2606:2800:220:1::1">>, ErrNil)

(***************************************************************************)
(* C31: trySync writes the query behind a two-byte length prefix, the high *)
(* byte of the query length and then the low byte, and reads exactly as    *)
(* many reply bytes as the two-byte big-endian prefix of the reply says; a *)
(* query of more than 65535 bytes fails with errDNSOverTCPTLSQueryTooLong  *)
(* before a deadline is set and before a byte is written.                  *)
(***************************************************************************)
C31_BigEndianFraming ==
  /\ fbuf.written =>
       /\ fbuf.header[1] \in 0..255 /\ fbuf.header[2] \in 0..255
       /\ fbuf.header[1] * 256 + fbuf.header[2] = fqlen
       /\ fbuf.payload = fqlen
  /\ (fpc = "done" /\ fret.err = ErrNil) =>
       fread = fhdr[1] * 256 + fhdr[2]
  /\ (fpc # "idle" /\ fqlen > 65535) =>
       /\ fpc = "done"
       /\ fret = Result("nil", ErrQueryTooLong)
       /\ fdl = <<>>
       /\ ~fbuf.written

\* a query of 258 bytes went out behind the prefix 1, 2 and the reply
\* announced by the prefix 1, 255 was read: 511 bytes
C31_Witness ==
  /\ fpc = "done"
  /\ fqlen = 258
  /\ fbuf.header = <<1, 2>>
  /\ fhdr = <<1, 255>>
  /\ fread = 511
  /\ fret = Result("reply", ErrNil)

\* C32 as claimed: a trySync that has set the I/O deadline clears it on every
\* exit path, so an open connection has a deadline only while a trySync is
\* between its SetDeadline and its deferred clear.
\* Fails: the defer captures dl.conn when trySync begins, SetDeadline reads
\* dl.conn again; an abandoned task sets the deadline on the connection a
\* later round trip has dialed and clears it on the one it captured.
C32_NoDeadlineAfterAttempt ==
  ~Crashed =>
    \A d \in deadlined \ closed : \E t \in TaskIds : tasks[t].pc \in IOPositions

(***************************************************************************)
(* C33: DNSOverHTTPSResolver.roundTrip returns                             *)
(* ErrDNSServerTemporarilyMisbehaving and no reply bytes for every         *)
(* response whose status is not 200, returns the error of the client's Do  *)
(* as it is when the request fails, and for status 200 returns what        *)
(* reading the body gives, whatever the content type of the response.      *)
(***************************************************************************)
C33_StatusDecidesNotContentType ==
  (dohTrip.called /\ Len(dohTrip.sent) = 1) =>
    LET answer == dohTrip.answer
    IN /\ answer.err # ErrNil => dohTrip.ret = Result("nil", answer.err)
       /\ (answer.err = ErrNil /\ answer.status # 200) =>
            dohTrip.ret = Result("nil", ErrDNSServerTemporarilyMisbehaving)
       /\ (answer.err = ErrNil /\ answer.status = 200) =>
            dohTrip.ret = IF answer.readErr = ErrNil
                            THEN Result("reply", ErrNil)
                            ELSE Result("partial reply", answer.readErr)

\* a response with status 200 and content type text/html: the body came back
C33_Witness ==
  /\ dohTrip.called
  /\ dohTrip.answer = [err |-> ErrNil, status |-> 200,
                       contentType |-> "text/html", readErr |-> ErrNil]
  /\ dohTrip.ret = Result("reply", ErrNil)

\* the positions in the monitor's log of the events of one query type
EventsOf(qtype) == {i \in 1..Len(gmon) : gmon[i].qtype = qtype}

(***************************************************************************)
(* C34: within one DNSResolver.LookupHost over a generic resolver the      *)
(* monitor's events do not overlap: OnDNSLookupHostStart is the first,     *)
(* every send-query / recv-reply event of the A query comes before every   *)
(* event of the AAAA query, and OnDNSLookupHostDone is the last and        *)
(* carries the addresses and the wrapped error that LookupHost returns.    *)
(***************************************************************************)
C34_MonitorEventsInOrder ==
  /\ gmon # <<>> => gmon[1].ev = "OnDNSLookupHostStart"
  /\ \A i \in 2..Len(gmon) : gmon[i].ev # "OnDNSLookupHostStart"
  /\ \A i \in EventsOf(TypeA), j \in EventsOf(TypeAAAA) : i < j
  /\ \A q \in QTypes : \A i \in EventsOf(q), j \in EventsOf(q) :
       (gmon[i].ev = "OnDNSSendQuery" /\ gmon[j].ev = "OnDNSRecvReply") => i < j
  /\ \A i \in 1..Len(gmon) :
       gmon[i].ev = "OnDNSLookupHostDone" =>
         /\ i = Len(gmon)
         /\ dpc = "returned"
         /\ gmon[i].addrs = dret.addrs /\ gmon[i].err = dret.err
  /\ dpc = "returned" =>
       /\ gmon[Len(gmon)].ev = "OnDNSLookupHostDone"
       /\ EventsOf(TypeA) # {} /\ EventsOf(TypeAAAA) # {}
       /\ gret.err # ErrNil => dret.err = <<"ErrLookupHost", gret.err>>
       /\ gret.err = ErrNil => dret.err = NilErr

\* both queries failed in the transport: four events, the last one carrying
\* the wrapped error of the A query
C34_Witness ==
  /\ dpc = "returned"
  /\ Len(gmon) = 4
  /\ gmon[2] = MonitorEvent("OnDNSSendQuery", TypeA, <<>>, NilErr)
  /\ gmon[3] = MonitorEvent("OnDNSSendQuery", TypeAAAA, <<>>, NilErr)
  /\ gmon[4] = MonitorEvent("OnDNSLookupHostDone", "", <<>>,
                            <<"ErrLookupHost", "transport error 1">>)

\* C35 as claimed: CloseIdleConnections on a DNSResolver whose underlying
\* resolver is a DNSOverHTTPSResolver closes the idle connections of the HTTP
\* client when OwnsClient is true and never when it is false.
\* Fails: the method of DNSOverHTTPSResolver is named CloseIdleConnection, so
\* the resolver is not a dnsIdleConnectionsCloser and is never asked.
C35_OwnsClientDecidesIdleClose ==
  (dohIdle.via = "DNSResolver" /\ dohIdle.u.kind = "DNSOverHTTPSResolver"
     /\ dohIdle.u.clientCloses) =>
    (dohIdle.calls.onClient = 1 <=> dohIdle.u.OwnsClient)

(***************************************************************************)
(* C36 as claimed: while an asyncTry task abandoned by a canceled caller   *)
(* has not finished its I/O, conn is neither set to nil nor closed and     *)
(* replaced, and no task ever uses a nil conn.                             *)
(* Fails: the abandoned task holds no lock; CloseIdleConnections or the    *)
(* redial of the next round trip changes conn under it.                    *)
(***************************************************************************)
C36_AbandonedTaskKeepsConn ==
  [][/\ (\E t \in TasksInFlight :
           Abandoned(t) /\ tasks[t].q.len <= MaxUint16) => conn' = conn
     /\ \A t \in TaskIds : tasks'[t].pc # "panic"]_vars

(***************************************************************************)
(* C37: the TCP/TLS resolver has no connection until the first round trip  *)
(* and dials only when conn is nil or after a try that ended with the      *)
(* redial hint.  A round trip that ends with a reply or with a read error  *)
(* leaves conn non-nil, and a round trip that finds conn non-nil goes to   *)
(* its first try on that connection without dialing.  conn becomes nil     *)
(* only by CloseIdleConnections or by the redial.                          *)
(***************************************************************************)
C37_DialsOnlyWhenNeeded ==
  [][/\ calls = 0 => conn = NoConn /\ dialed = 0
     /\ \A c \in Callers :
          /\ dials'[c] > dials[c] =>
               /\ conn = NoConn
               /\ \/ tries[c] = 0
                  \/ tries[c] = 1 /\ IsRedialHint(tryOut[c][1].out.err)
          /\ (pc[c] = "rtrip" /\ ~query[c].isNil /\ conn # NoConn
                /\ pc'[c] # pc[c]) =>
               pc'[c] = "try" /\ conn' = conn /\ dialed' = dialed
          /\ (pc[c] = "try" /\ pc'[c] = "select" /\ tries[c] = 0
                /\ dials[c] = 0) => conn # NoConn /\ conn' = conn
          /\ (pc[c] = "unlock" /\ pc'[c] = "idle"
                /\ ret[c].err \in {ErrNil, ErrRead} /\ ~query[c].isNil) =>
               conn # NoConn /\ conn' = conn
     /\ (conn # NoConn /\ conn' # conn) =>
          /\ conn' = NoConn
          /\ mu # NoOwner
          /\ pc[mu] = "setnil"
          /\ conn \in closed]_vars

\* a round trip on the connection an earlier round trip dialed has failed
\* with a read error: it has not dialed and the connection is still there
C37_Witness ==
  \E c \in Callers :
    /\ pc[c] = "unlock"
    /\ calls >= 2
    /\ tries[c] = 1
    /\ dials[c] = 0
    /\ ret[c] = Result("nil", ErrRead)
    /\ conn = 1
    /\ closed = {}

\* the connections dialed so far on which Close() was not called
OpenConns == (1..dialed) \ closed

(***************************************************************************)
(* C38: the TCP/TLS resolver owns at most one open connection: every       *)
(* connection it has dialed is the current conn or has been closed, the    *)
(* current conn is open but between Close() and the assignment of nil,     *)
(* forceDial has closed and forgotten the previous connection when it      *)
(* dials, and a failed dial leaves conn nil.                               *)
(***************************************************************************)
C38_AtMostOneOpenConn ==
  /\ Cardinality(OpenConns) <= 1
  /\ \A id \in 1..dialed : id = conn \/ id \in closed
  /\ conn # NoConn =>
       \/ conn \in OpenConns
       \/ mu # NoOwner /\ pc[mu] = "setnil"
  /\ \A c \in Callers :
       /\ pc[c] = "dial" => conn = NoConn /\ OpenConns = {}
       /\ (pc[c] = "unlock" /\ ret[c].err = ErrDial) => conn = NoConn

\* a redial: the first connection is closed, the second one is the conn
C38_Witness ==
  /\ dialed = 2
  /\ closed = {1}
  /\ conn = 2
  /\ \E c \in Callers : dials[c] = 1 /\ tries[c] = 2

(***************************************************************************)
(* C39 as claimed: with fair scheduling and I/O that ends, every caller    *)
(* that has entered roundTrip or CloseIdleConnections gets the lock and    *)
(* returns, having released the lock.                                      *)
(* Fails: roundTrip does unlock on every outcome, but an abandoned asyncTry *)
(* goroutine that finds conn nil panics and the process ends with callers  *)
(* still parked at r.mu.Lock().                                            *)
(***************************************************************************)
C39_EveryCallerReturns ==
  \A c \in Callers : (pc[c] = "lock") ~> (pc[c] = "idle")

\* what the channels of call k of the system resolver hold
SysSent(k) == Len(addrsch[SysChanOf(k)]) + Len(errch[SysChanOf(k)])

(***************************************************************************)
(* C40: the goroutines started by resolverSystem.LookupHost and by try     *)
(* never block on the delivery of their result.  Whenever the lookup of a  *)
(* system task may return, or a TCP/TLS task has come out of trySync and   *)
(* reached its send, the channel has room for the value, whether or not    *)
(* the caller has returned on context expiry: the channel of a task never  *)
(* holds a value before the task's send, the send is enabled, it puts the  *)
(* result into the channel and it is the task's only send and last step.   *)
(***************************************************************************)
C40_SendNeverBlocks ==
  [][/\ \A k \in SysCalls :
          stask[k] = "running" =>
            /\ SysCanSend(addrsch, k) /\ SysCanSend(errch, k)
            /\ stask'[k] # "running" =>
                 /\ stask'[k] = "exited"
                 /\ addrsch' # addrsch \/ errch' # errch
     /\ \A k \in SysCalls : stask[k] = "exited" => stask'[k] = "exited"
     /\ \A t \in TaskIds :
          /\ TryChanLen(t) <= TryChanCap
          /\ tasks[t].pc \notin {"free", "done"} => TryChanLen(t) = 0
          /\ tasks[t].pc = "send" =>
               /\ TryCanSend(t)
               /\ ENABLED asyncTrySend(t)
               /\ tasks'[t] # tasks[t] =>
                    /\ tasks'[t].pc = IF TryReceiving(t) THEN "done" ELSE "free"
                    /\ trych'[t] = <<tasks[t].out>>]_vars

\* both abandoned goroutines have delivered: LookupHost of the system
\* resolver has returned the context's error and the goroutine it left
\* behind has since put its result into the channel and exited, and so has
\* the asyncTry goroutine of a try that returned on ctx.Done()
C40_Witness ==
  /\ \E c \in Callers : TryAbandonedDelivered(c)
  /\ \E k \in SysCalls :
       /\ scall = k /\ spc = "returned"
       /\ sret.err \in {ErrCanceled, ErrDeadlineExceeded}
       /\ stask[k] = "exited"
       /\ SysSent(k) = 1

====
